---- MODULE Spec2Model ----
(***************************************************************************)
(* Playback synchronisation and optimistic-command engine of the Swing DJ  *)
(* Companion renderer (src/renderer.js), with the main-process handlers it *)
(* talks to: the token store and the track library (src/unnamed/part_000). *)
(*                                                                         *)
(* One step of the model is one task of the single-threaded event loop: a  *)
(* user action, a timer callback, an in-process session event or the       *)
(* arrival of a response, run up to the next point where the code awaits   *)
(* something that is not already available.                                *)
(***************************************************************************)
EXTENDS Integers, Sequences, FiniteSets, TLC

\* ---------------------------------------------------------------- constants

\* renderer.js:209 and :240, the minimum spacing between accepted commands.
ThrottleMs == 500
\* renderer.js:222, setTimeout(pollPlaybackState, 100); also the granularity
\* of the model's clock.
SupplementaryPollDelayMs == 100

\* ------------------------------------------------------------------- bounds

\* Number of clock readings after the first at which tasks run.
MaxTicks == 4
\* pollPlaybackState invocations that may be awaiting a response at once.
MaxPolls == 1

\* Date.now() at start-up: at least ThrottleMs past the initial timestamps
\* (0), as on a real clock.
StartNow == ThrottleMs
\* The clock readings at which tasks run, in ms after start-up: 10 ms apart,
\* just inside and just outside a throttle window, then every 100 ms.
ClockOffset(k) ==
  CASE k = 0 -> 0
    [] k = 1 -> 10
    [] k = 2 -> ThrottleMs - SupplementaryPollDelayMs
    [] k = 3 -> ThrottleMs
    [] OTHER -> ThrottleMs + (k - 3) * SupplementaryPollDelayMs
Instants == { StartNow + ClockOffset(k) : k \in 0..MaxTicks }
\* The same without the reading 10 ms after start-up, which only two
\* togglePlayPause calls 10 ms apart need.
PlayInstants == { StartNow + ClockOffset(k) : k \in (0..MaxTicks) \ {1} }
\* Number of whole throttle windows explored where only they matter.
MaxWindows == 1
WindowInstants == { StartNow + k * ThrottleMs : k \in 0..MaxWindows }
\* Number of clock readings after the first where the poller is studied.
MaxPollTicks == 4
\* The clock readings of the poller's study: one every 100 ms.
PollInstants ==
  { StartNow + k * SupplementaryPollDelayMs : k \in 0..MaxPollTicks }
\* pollPlaybackState invocations that may overlap where overlap is studied.
MaxOverlap == 2
\* save-track handlers that may await a response at the same time.
MaxSaveCalls == 2
\* Refreshes the other callers of getValidToken may await at the same time.
MaxTokenCalls == 1
\* handleLogout calls that may await the reply of logout at the same time.
MaxLogouts == 2
\* Asynchronous calls that may be awaited at once where calls of every kind
\* are interleaved.
MaxInFlight == 2
\* Saves of the settings that may await their reply at the same time.
MaxCredCalls == 1

NULL == "null"
TrackIds == {"X", "Y"}
\* progress_ms and duration_ms values a /v1/me/player response may carry.
Positions == {0, 10000, 10500}
Durations == {0, 10700}
\* GET /v1/me/player responses with a loaded track (progress_ms || 0 and
\* duration_ms || 0 already applied).
Responses ==
  [track : TrackIds, isPlaying : BOOLEAN, posMs : Positions, durMs : Durations]
\* The responses that differ in is_playing only.
BeliefResponses ==
  { r \in Responses : r.track = "X" /\ r.posMs = 10500 /\ r.durMs = 10700 }
\* The responses of a track under way: it ends 700 or 200 ms after the
\* reported position.
PollerResponses == { r \in Responses : r.posMs > 0 /\ r.durMs > 0 }
SdkDevice == "sdk"
\* Device lists GET /v1/me/player/devices may return.
DeviceLists ==
  { << >>,
    << [id |-> "a", is_active |-> FALSE], [id |-> "b", is_active |-> TRUE] >>,
    << [id |-> "a", is_active |-> FALSE], [id |-> "b", is_active |-> FALSE] >> }
TimerIds == {"t1", "t2", "t3"}

\* Glyphs of the play/pause button: PlayGlyph is shown while paused.
PlayGlyph == "play"
PauseGlyph == "pause"

\* Error messages, by the text isTransientError inspects.
MsgNotAuth == "Not authenticated"
MsgRestriction == "Player command failed: Restriction violated"
MsgServer == "Spotify error 502"
MsgEmptyResponse == "Error invoking remote method 'refresh-token': Error: Empty response from server"
MsgNoDevice == "No active Spotify device found. Open the Spotify app first."
MsgPlayerReady == "In-app player ready"
MsgLoginOpen == "Opening Spotify login..."
MsgLoginFailed == "Access denied"
MsgLoggedIn == "Logged in!"
MsgLoggingIn == "Logging in..."
MsgNoClientId == "No Client ID configured. Open Settings first."
MsgExchangeFailed == "Token exchange failed"
MsgNoCredentials ==
  "Open Settings to add your Spotify API credentials first."
MsgLookingUp == "Looking up track..."
MsgAlreadyInLibrary == "Track already in library."
MsgNotATrack ==
  "That doesn't look like a Spotify track. Try dragging from the Spotify app."
MsgInvalidUri == "Not a valid Spotify track link or URI."
MsgNoSavedCredentials == "No Spotify credentials saved. Open Settings first."
MsgLookupFailed == "Empty response from server"
MsgBothRequired == "Both fields are required."
MsgCredentialsSaved == "Credentials saved."
\* Messages a failed remote request may carry.
MsgBadJson == "Unexpected token < in JSON at position 0"
FetchErrors == {MsgRestriction, MsgServer, MsgBadJson}
\* Messages a failed token refresh may carry when the IPC call rejects.
RefreshErrors == {MsgEmptyResponse}

VARIABLES
  now,                      \* Date.now()
  accessToken,              \* renderer.js:3
  cfgRefreshToken,          \* main process: cfg.refreshToken is stored
  spotifyPlayer,            \* renderer.js:5 (TRUE: a player object)
  sdkDeviceId,              \* renderer.js:6
  progressTimer,            \* renderer.js:7, a timer id or NULL
  pollInterval,             \* renderer.js:8, a timer id or NULL
  progressTimers,           \* ids of the live Interpolation Clock intervals
  intervalTimers,           \* ids of the live poll intervals
  timeouts,                 \* pending setTimeout(pollPlaybackState, 100)
  pollSyncPos, pollSyncAt, pollDuration,
  lastTrackId, lastPaused,
  playbackCommandPending, lastPlaybackCommandTime,
  playTrackPending, lastPlayTrackTime,
  polls,                    \* pollPlaybackState invocations awaiting a response
  tg,                       \* the togglePlayPause invocation past its guards
  pt,                       \* the playTrack invocation past its guards
  sdkToggles,               \* unsettled spotifyPlayer.togglePlay() promises
  boot,                     \* position of the start-up function
                            \* (renderer.js:725-749)
  sdkLoaded,                \* window.Spotify is defined (the SDK script ran)
  sdkSetup,                 \* window.onSpotifyWebPlaybackSDKReady holds a
                            \* setup of initPlayer
  others,                   \* refreshes awaited by the other callers of
                            \* getValidToken, those of them that read a
                            \* stored refresh token, and those of these
                            \* whose handler has written the configuration
  logouts,                  \* handleLogout calls awaiting the reply of
                            \* logout (renderer.js:408)
  logoutsHandled,           \* those of them whose message the main process
                            \* has handled (part_000:275-282)
  login,                    \* position of handleLogin
  relogin,                  \* position of a second handleLogin started while
                            \* the first is awaited ("none": no such call)
  bar,                      \* playback bar: "none", "out" or "in"
  nowPlaying,               \* track rendered in the now-playing panel
  ppBtn,                    \* #playPauseBtn: [text, disabled]
  progressEl,               \* position shown by updateProgressEl
  status,                   \* #status: [msg, type]
  evt,                      \* the last step: "toggle" or "playTrack" (an
                            \* invocation of that function ran), "unhandled"
                            \* (a promise rejected with no handler),
                            \* "snapshot" (a poll response with a loaded
                            \* track arrived), "pollFailed" (a poll threw),
                            \* "progress" (the Interpolation Clock's
                            \* callback ran), "other"
  obs,                      \* outcome and times of the last commands (observer)
  tracksFile,               \* part_000:16-26, the tracks stored in tracks.json
  credentials,              \* part_000:108-109, config.json holds a client id
                            \* and a client secret
  credCalls,                \* saves of the settings under way: those whose
                            \* save-credentials message awaits the main
                            \* process (sent) and those whose reply is on its
                            \* way (done)
  saveCalls                 \* save-track calls of the renderer under way,
                            \* from the message sent to the reply read, each
                            \* with the tracks it loaded

vars == << now, accessToken, cfgRefreshToken, spotifyPlayer,
           sdkDeviceId, progressTimer, pollInterval, progressTimers,
           intervalTimers, timeouts, pollSyncPos, pollSyncAt, pollDuration,
           lastTrackId, lastPaused, playbackCommandPending,
           lastPlaybackCommandTime, playTrackPending, lastPlayTrackTime,
           polls, tg, pt, sdkToggles, login, relogin, bar, nowPlaying,
           ppBtn, progressEl, status, evt, obs, boot, sdkLoaded, sdkSetup,
           others, logouts, logoutsHandled, tracksFile, credentials,
           credCalls, saveCalls >>

\* The renderer's state and its observers.
playerVars == << now, accessToken, cfgRefreshToken, spotifyPlayer,
                 sdkDeviceId, progressTimer, pollInterval, progressTimers,
                 intervalTimers, timeouts, pollSyncPos, pollSyncAt,
                 pollDuration, lastTrackId, lastPaused,
                 playbackCommandPending, lastPlaybackCommandTime,
                 playTrackPending, lastPlayTrackTime, polls, tg, pt,
                 sdkToggles, login, relogin, bar, nowPlaying, ppBtn,
                 progressEl, status, evt, obs, boot, sdkLoaded, sdkSetup,
                 others, logouts, logoutsHandled >>
\* The main process's track library, its configuration and their calls.
libVars == << tracksFile, credentials, credCalls, saveCalls >>
\* The renderer's state but for the status line, which the callers of the
\* library write.
libFrame == << now, accessToken, cfgRefreshToken, spotifyPlayer,
               sdkDeviceId, progressTimer, pollInterval, progressTimers,
               intervalTimers, timeouts, pollSyncPos, pollSyncAt,
               pollDuration, lastTrackId, lastPaused,
               playbackCommandPending, lastPlaybackCommandTime,
               playTrackPending, lastPlayTrackTime, polls, tg, pt,
               sdkToggles, login, relogin, bar, nowPlaying, ppBtn,
               progressEl, evt, obs, boot, sdkLoaded, sdkSetup,
               others, logouts, logoutsHandled >>
\* The start-up function, the SDK script, the other token callers and the
\* logouts under way.
bootVars == << boot, sdkLoaded, sdkSetup, others, logouts, logoutsHandled >>

\* Groups used in UNCHANGED clauses.
logoutVars == << logouts, logoutsHandled >>
tokenVars == << accessToken, cfgRefreshToken >>
sdkVars   == << spotifyPlayer, sdkDeviceId >>
timerVars == << progressTimer, pollInterval, progressTimers, intervalTimers >>
syncVars  == << pollSyncPos, pollSyncAt, pollDuration >>
tgVars    == << playbackCommandPending, lastPlaybackCommandTime, tg, sdkToggles >>
ptVars    == << playTrackPending, lastPlayTrackTime, pt, timeouts >>
domVars   == << bar, nowPlaying, ppBtn, progressEl >>

\* ------------------------------------------------------------------ helpers

\* The substrings isTransientError looks for that occur in msg.toLowerCase().
LowerIncludes(msg) ==
  CASE msg = MsgRestriction   -> {"restriction violated"}
    [] msg = MsgBadJson       -> {"unexpected", "json"}
    [] msg = MsgEmptyResponse -> {"empty response"}
    [] OTHER                  -> {}

\* A classifier for which no message is transient.
NothingTransient(msg) == FALSE

\* renderer.js:69-79
isTransientError(msg) ==
  IF msg = "" THEN FALSE
  ELSE \/ "not valid json" \in LowerIncludes(msg)
       \/ "restriction violated" \in LowerIncludes(msg)
       \/ "failed to parse" \in LowerIncludes(msg)
       \/ ("unexpected" \in LowerIncludes(msg) /\ "json" \in LowerIncludes(msg))
       \/ "empty response" \in LowerIncludes(msg)

\* renderer.js:44-51, the new content of #status.
setStatus(msg, type) == [msg |-> msg, type |-> type]

\* renderer.js:82-88, the content of #status after setStatusError(msg).
setStatusError(msg) ==
  IF isTransientError(msg) THEN status ELSE setStatus(msg, "error")

\* err.message || 'Playback failed' (renderer.js:230, :269)
ErrText(msg) == IF msg = "" THEN "Playback failed" ELSE msg

\* renderer.js:251, the glyph for a belief.
Glyph(paused) == IF paused THEN PlayGlyph ELSE PauseGlyph

\* renderer.js:93, :103-106: where a spotifyFetch call first waits. Without
\* a cached token it waits for the refresh; with one it waits for the
\* refresh or, when the token is more than three minutes from its expiry,
\* for the response. tokenExpiry is not tracked, so either may happen.
FetchStages == IF accessToken = NULL THEN {"token"} ELSE {"token", "fetch"}

\* clearInterval(id) on the live Interpolation Clock timers.
clearInterval(live, id) == live \ {id}

\* setInterval returns an id no live timer and no handle holds.
NewTimerId ==
  CHOOSE i \in TimerIds :
    i \notin (progressTimers \cup intervalTimers \cup {progressTimer, pollInterval})

\* renderer.js:93-94, a call that first waits at the given stage sends a
\* refresh-token message to the main process; a call that uses its cached
\* token sends none.
RefreshSent(stage) == stage = "token"

\* part_000:239-240, what the refresh-token handler reads when the main
\* process takes the message: a stored refresh token (TRUE), or none, and
\* then it answers with an error. The main process runs one handler task at
\* a time; the order in which it takes the messages awaiting it is left
\* open.
RefreshReads == cfgRefreshToken

\* polls.token counts the polls awaiting a refresh, polls.sent those of them
\* whose message the main process has not taken yet, polls.granted those
\* whose handler read a stored refresh token, polls.written those of these
\* whose handler has written the configuration and answered.
PollsInFlight == polls.token + polls.fetch

\* renderer.js:140-142, pollPlaybackState up to its await.
StartPoll(p, stage) ==
  IF RefreshSent(stage)
  THEN [p EXCEPT !.token = @ + 1, !.sent = @ + 1]
  ELSE [p EXCEPT !.fetch = @ + 1]

\* tg.sent and pt.sent: the refresh-token message of the invocation awaits
\* the main process; tg.rt and pt.rt: the handler read a stored refresh
\* token when it took the message; tg.wb and pt.wb: the handler has written
\* the configuration and answered, the reply is on its way.
TgIdle == [pc |-> "idle", sent |-> FALSE, rt |-> FALSE, wb |-> FALSE,
           prevPaused |-> FALSE, shouldPlay |-> FALSE, now |-> 0,
           btn |-> "none", cmd |-> "none"]
PtIdle == [pc |-> "idle", stage |-> "none", sent |-> FALSE, rt |-> FALSE,
           wb |-> FALSE, trackId |-> NULL,
           deviceId |-> NULL, uri |-> << >>]
NoBtn == [text |-> PlayGlyph, disabled |-> TRUE]

\* part_000:256-261, the token endpoint answers a refresh with an access
\* token: the handler writes back the configuration it read when it started,
\* refresh token included, whatever has happened since.
RefreshWritesBack == cfgRefreshToken' = TRUE

\* renderer.js:95-98, the reply of that handler reaches getValidToken, which
\* stores the access token, whatever has happened since.
RefreshOk == accessToken' = "tok"

\* Messages spotifyFetch throws when it gets no token: refreshToken returned
\* no accessToken (renderer.js:100, :105) or the IPC call rejected
\* (part_000:286-313).
TokenErrors == {MsgNotAuth} \cup RefreshErrors

\* A save-track slot with no handler awaiting. by is the caller in the
\* renderer that awaits the reply: handleTrackUri ("uri") or the listener of
\* a row's add button in the library browser ("browser").
NoUri == [form |-> "none", id |-> ""]
NoSaveCall == [pc |-> "idle", uri |-> NoUri, trackId |-> NULL,
               tracks |-> << >>, ret |-> "none", by |-> "none"]

\* The observer's record of the device lookup of the current playTrack: not
\* made ("none"), failed ("failed") or answered with a list ("list").
NoDevices == [got |-> "none", list |-> << >>]

\* The observer's record of the last response with a loaded track: the
\* response and when it arrived (seen FALSE: none yet).
NoResponse ==
  [seen |-> FALSE, at |-> 0,
   r |-> [track |-> NULL, isPlaying |-> FALSE, posMs |-> 0, durMs |-> 0]]

Init ==
  /\ now = StartNow
  /\ accessToken = NULL
  /\ cfgRefreshToken \in BOOLEAN
  /\ spotifyPlayer = FALSE
  /\ sdkDeviceId = NULL
  /\ progressTimer = NULL
  /\ pollInterval = NULL
  /\ progressTimers = {}
  /\ intervalTimers = {}
  /\ timeouts = 0
  /\ pollSyncPos = 0
  /\ pollSyncAt = 0
  /\ pollDuration = 0
  /\ lastTrackId = NULL
  /\ lastPaused = TRUE
  /\ playbackCommandPending = FALSE
  /\ lastPlaybackCommandTime = 0
  /\ playTrackPending = FALSE
  /\ lastPlayTrackTime = 0
  /\ polls = [token |-> 0, sent |-> 0, granted |-> 0, written |-> 0,
              fetch |-> 0]
  /\ tg = TgIdle
  /\ pt = PtIdle
  /\ sdkToggles = 0
  /\ login = "idle"
  /\ boot = "start"
  /\ sdkLoaded \in BOOLEAN
  /\ sdkSetup = FALSE
  /\ others = [token |-> 0, sent |-> 0, granted |-> 0, written |-> 0,
               player |-> 0]
  /\ logouts = 0
  /\ logoutsHandled = 0
  /\ bar = "none"
  /\ nowPlaying = "idle"
  /\ ppBtn = NoBtn
  /\ progressEl = 0
  /\ status = setStatus("", "")
  /\ relogin = "none"
  /\ evt = "init"
  /\ obs = [tgAt |-> 0, tgRes |-> "none", tgBtn0 |-> "none",
            ptAt |-> 0, ptTrack |-> NULL, ptDoneAt |-> 0, ptRes |-> "none",
            ptPrev |-> << 0, NULL, "none" >>, ptDevices |-> NoDevices,
            resp |-> NoResponse, over |-> 0, tgClock0 |-> FALSE]
  /\ tracksFile = << >>
  /\ credentials \in BOOLEAN
  /\ cfgRefreshToken => credentials
  /\ credCalls = [sent |-> 0, done |-> 0]
  /\ saveCalls = [c \in 1..MaxSaveCalls |-> NoSaveCall]

\* window.Spotify at start-up: the SDK script has loaded before the stored
\* session is read, or it has not (renderer.js:297-298).
InitSdkLoaded == Init /\ sdkLoaded

InitSdkNotLoaded == Init /\ ~sdkLoaded

\* ---------------------------------------------------------- togglePlayPause

\* A dispatcher without the pending guard.
ToggleRejectsThrottleOnly == now - lastPlaybackCommandTime < ThrottleMs

\* A dispatcher whose two command classes share their guards.
ToggleRejectsEitherClass ==
  \/ playbackCommandPending
  \/ now - lastPlaybackCommandTime < ThrottleMs
  \/ playTrackPending
  \/ now - lastPlayTrackTime < ThrottleMs

\* renderer.js:238-240, the guards that reject an invocation.
ToggleRejects ==
  \/ playbackCommandPending
  \/ now - lastPlaybackCommandTime < ThrottleMs

\* A dispatcher that reads the belief after flipping it.
ToggleShouldPlayFlipped(prevPaused) == ~prevPaused

\* renderer.js:247
ToggleShouldPlay(prevPaused) == prevPaused

\* renderer.js:252, the live Interpolation Clock timers after the optimistic
\* update to the belief newPaused.
ToggleOptimisticClock(newPaused) ==
  IF newPaused THEN clearInterval(progressTimers, progressTimer)
  ELSE progressTimers

\* renderer.js:255
SdkConnected == spotifyPlayer /\ sdkDeviceId # NULL

\* A dispatcher that releases the pending flag on success only.
ToggleReleaseOnSuccess(outcome) == outcome = "failed"

\* renderer.js:270-272, the pending flag when the invocation ends with the
\* given outcome ("ok" or "failed").
ToggleRelease(outcome) == FALSE

\* The call sites of togglePlayPause: a click on the enabled play/pause button
\* (renderer.js:338-339) or on the card of the track believed to be playing
\* (renderer.js:580-582).
ToggleInvoked ==
  \/ bar = "in" /\ ~ppBtn.disabled
  \/ lastTrackId \in TrackIds /\ ~lastPaused

\* renderer.js:238-240, an invocation rejected by a guard.
ToggleRejected ==
  /\ ToggleInvoked
  /\ ToggleRejects
  /\ evt' = "toggle"
  /\ UNCHANGED << now, tokenVars, sdkVars, timerVars, timeouts, syncVars,
                  lastTrackId, lastPaused, tgVars, playTrackPending,
                  lastPlayTrackTime, pt, polls, login, relogin, libVars, bootVars, domVars,
                  status, obs >>

\* renderer.js:242-252, the optimistic update of an accepted invocation.
ToggleOptimistic ==
  /\ lastPaused' = ~lastPaused
  /\ ppBtn' = IF bar = "in" THEN [ppBtn EXCEPT !.text = Glyph(~lastPaused)]
              ELSE ppBtn
  /\ progressTimers' = ToggleOptimisticClock(~lastPaused)

\* renderer.js:242-256, :264, :271: an accepted invocation with the in-process
\* session connected. togglePlay() is called and not awaited, so the
\* invocation runs to its end in the same task.
ToggleViaSdk ==
  /\ ToggleInvoked
  /\ ~ToggleRejects
  /\ SdkConnected
  /\ ToggleOptimistic
  /\ sdkToggles' = sdkToggles + 1
  /\ lastPlaybackCommandTime' = now
  /\ playbackCommandPending' = ToggleRelease("ok")
  /\ tg' = TgIdle
  /\ evt' = "toggle"
  /\ obs' = [obs EXCEPT !.tgAt = now, !.tgRes = "ok", !.tgBtn0 = "none",
                        !.tgClock0 = FALSE]
  /\ UNCHANGED << now, tokenVars, sdkVars, progressTimer, pollInterval,
                  intervalTimers, timeouts, syncVars, lastTrackId,
                  playTrackPending, lastPlayTrackTime, pt, polls, login, relogin, libVars, bootVars, bar, nowPlaying, progressEl, status >>

\* renderer.js:242-261, an accepted invocation without an in-process session:
\* runs up to the await of spotifyFetch. Where the clock is watched, the
\* observer records whether it was running at invocation.
ToggleViaRemoteWatching(watch) ==
  /\ ToggleInvoked
  /\ ~ToggleRejects
  /\ ~SdkConnected
  /\ ToggleOptimistic
  /\ playbackCommandPending' = TRUE
  /\ \E stage \in FetchStages :
       tg' = [pc |-> stage,
            sent |-> RefreshSent(stage),
            rt |-> FALSE,
            wb |-> FALSE,
            prevPaused |-> lastPaused,
            shouldPlay |-> ToggleShouldPlay(lastPaused),
            now |-> now,
            btn |-> IF bar = "in" THEN "live" ELSE "none",
            cmd |-> IF ToggleShouldPlay(lastPaused) THEN "play" ELSE "pause"]
  /\ evt' = "toggle"
  /\ obs' = [obs EXCEPT !.tgAt = now, !.tgRes = "pending",
                        !.tgBtn0 = IF bar = "in" THEN ppBtn.text ELSE "none",
                        !.tgClock0 = watch /\ progressTimers # {}]
  /\ UNCHANGED << now, tokenVars, sdkVars, progressTimer, pollInterval,
                  intervalTimers, timeouts, syncVars, lastTrackId,
                  lastPlaybackCommandTime, sdkToggles, playTrackPending,
                  lastPlayTrackTime, pt, polls, login, relogin, libVars, bootVars, bar,
                  nowPlaying, progressEl, status >>

\* The same with the clock unwatched.
ToggleViaRemote == ToggleViaRemoteWatching(FALSE)

\* renderer.js:264, the timestamp after a successful command.
ToggleRecordTime == tg.now

\* A success path that asserts the optimistic belief again.
ToggleSuccessBeliefReasserted == ~tg.prevPaused

\* renderer.js:262-264, the belief after a successful command: the success
\* path assigns nothing to lastPaused.
ToggleSuccessBelief == lastPaused

\* renderer.js:264, :271: the awaited request succeeded.
ToggleSucceeds ==
  /\ lastPaused' = ToggleSuccessBelief
  /\ lastPlaybackCommandTime' = ToggleRecordTime
  /\ playbackCommandPending' = ToggleRelease("ok")
  /\ tg' = TgIdle
  /\ evt' = "other"
  /\ obs' = [obs EXCEPT !.tgRes = "ok", !.tgBtn0 = "none", !.tgClock0 = FALSE]
  /\ UNCHANGED << now, sdkVars, timerVars, timeouts, syncVars, lastTrackId,
                  sdkToggles, playTrackPending, lastPlayTrackTime, pt, polls,
                  login, relogin, libVars, bootVars, domVars, status >>

\* A dispatcher that keeps the optimistic belief after a failed command.
ToggleKeepBelief == ~tg.prevPaused

\* renderer.js:267, the belief after a failed command.
ToggleRevertBelief == tg.prevPaused

\* renderer.js:265-271: the awaited request threw err with message msg.
ToggleFails(msg) ==
  /\ lastPaused' = ToggleRevertBelief
  /\ ppBtn' = IF tg.btn = "live"
              THEN [ppBtn EXCEPT !.text = Glyph(ToggleRevertBelief)]
              ELSE ppBtn
  /\ status' = setStatusError(ErrText(msg))
  /\ playbackCommandPending' = ToggleRelease("failed")
  /\ tg' = TgIdle
  /\ evt' = "other"
  /\ obs' = [obs EXCEPT !.tgRes = "failed", !.tgBtn0 = "none",
                        !.tgClock0 = FALSE]
  /\ UNCHANGED << now, sdkVars, timerVars, timeouts, syncVars, lastTrackId,
                  lastPlaybackCommandTime, sdkToggles, playTrackPending,
                  lastPlayTrackTime, pt, polls, login, relogin, libVars, bootVars, bar,
                  nowPlaying, progressEl >>

\* part_000:238-240, the main process takes the refresh-token message of the
\* toggle's request: the handler reads the configuration.
ToggleRefreshTaken ==
  /\ tg.pc = "token"
  /\ tg.sent
  /\ tg' = [tg EXCEPT !.sent = FALSE, !.rt = RefreshReads]
  /\ evt' = "other"
  /\ UNCHANGED << now, tokenVars, sdkVars, timerVars, timeouts, syncVars,
                  lastTrackId, lastPaused, playbackCommandPending,
                  lastPlaybackCommandTime, sdkToggles, playTrackPending,
                  lastPlayTrackTime, pt, polls, login, relogin, libVars,
                  bootVars, domVars, status, obs >>

\* part_000:256-261, the refresh awaited by the toggle's request is answered
\* with a token in the main process.
ToggleRefreshAnswered ==
  /\ tg.pc = "token"
  /\ tg.rt
  /\ ~tg.wb
  /\ RefreshWritesBack
  /\ tg' = [tg EXCEPT !.wb = TRUE]
  /\ evt' = "other"
  /\ UNCHANGED << now, accessToken, sdkVars, timerVars, timeouts, syncVars,
                  lastTrackId, lastPaused, playbackCommandPending,
                  lastPlaybackCommandTime, sdkToggles, playTrackPending,
                  lastPlayTrackTime, pt, polls, login, relogin, libVars,
                  bootVars, domVars, status, obs >>

\* renderer.js:104, the reply of that refresh reaches the toggle's request.
ToggleTokenOk ==
  /\ tg.pc = "token"
  /\ tg.wb
  /\ RefreshOk
  /\ tg' = [tg EXCEPT !.pc = "fetch", !.rt = FALSE, !.wb = FALSE]
  /\ evt' = "other"
  /\ UNCHANGED << now, cfgRefreshToken, sdkVars, timerVars, timeouts, syncVars, lastTrackId,
                  lastPaused, playbackCommandPending, lastPlaybackCommandTime,
                  sdkToggles, playTrackPending, lastPlayTrackTime, pt, polls,
                  login, relogin, libVars, bootVars, domVars, status, obs >>

\* renderer.js:104-105, the toggle's request gets no token.
ToggleTokenFails ==
  /\ tg.pc = "token"
  /\ ~tg.sent
  /\ ~tg.wb
  /\ \E msg \in TokenErrors : ToggleFails(msg)
  /\ UNCHANGED tokenVars

\* renderer.js:106-117, the response to the toggle's request arrives.
ToggleFetchOk ==
  /\ tg.pc = "fetch"
  /\ ToggleSucceeds
  /\ UNCHANGED tokenVars

ToggleFetchFails ==
  /\ tg.pc = "fetch"
  /\ \E msg \in FetchErrors : ToggleFails(msg)
  /\ UNCHANGED tokenVars

\* The promise of an unawaited spotifyPlayer.togglePlay() settles
\* (renderer.js:256); a rejection has no handler.
SdkToggleSettles ==
  /\ sdkToggles > 0
  /\ sdkToggles' = sdkToggles - 1
  /\ \E ok \in BOOLEAN : evt' = IF ok THEN "other" ELSE "unhandled"
  /\ UNCHANGED << now, tokenVars, sdkVars, timerVars, timeouts, syncVars,
                  lastTrackId, lastPaused, playbackCommandPending,
                  lastPlaybackCommandTime, tg, playTrackPending,
                  lastPlayTrackTime, pt, polls, login, relogin, libVars, bootVars, domVars, status, obs >>

\* ------------------------------------------------------------------ polling

\* A stopPolling that cancels neither timer.
KeepPollingTimers ==
  [progress |-> progressTimers, interval |-> intervalTimers]

\* renderer.js:133-138 as seen by the timers: both handles cleared.
StopPollingTimers ==
  [progress |-> clearInterval(progressTimers, progressTimer),
   interval |-> clearInterval(intervalTimers, pollInterval)]

\* renderer.js:129, the poll startPolling issues at once.
FirstPoll(p, stage) == StartPoll(p, stage)

\* renderer.js:127-131: stopPolling(), an immediate poll, a new interval.
\* Polls already awaiting a response do not hold it back; the count of
\* those is capped at MaxOverlap.
startPolling ==
  /\ PollsInFlight < MaxOverlap
  /\ progressTimers' = StopPollingTimers.progress
  /\ progressTimer' = NULL
  /\ \E stage \in FetchStages : polls' = FirstPoll(polls, stage)
  /\ pollInterval' = NewTimerId
  /\ intervalTimers' = StopPollingTimers.interval \cup {NewTimerId}

\* renderer.js:130, the poll interval fires, with fewer than n polls awaiting
\* a response.
PollIntervalTickUpTo(n) ==
  /\ intervalTimers # {}
  /\ PollsInFlight < n
  /\ \E stage \in FetchStages : polls' = StartPoll(polls, stage)
  /\ evt' = "other"
  /\ UNCHANGED << now, tokenVars, sdkVars, timerVars, timeouts, syncVars,
                  lastTrackId, lastPaused, tgVars, playTrackPending,
                  lastPlayTrackTime, pt, login, relogin, libVars, bootVars, domVars, status,
                  obs >>

PollIntervalTick == PollIntervalTickUpTo(MaxPolls)

\* renderer.js:222, the supplementary poll's timeout fires, with fewer than n
\* polls awaiting a response.
SupplementaryPollFiresUpTo(n) ==
  /\ timeouts > 0
  /\ PollsInFlight < n
  /\ timeouts' = timeouts - 1
  /\ \E stage \in FetchStages : polls' = StartPoll(polls, stage)
  /\ evt' = "other"
  /\ UNCHANGED << now, tokenVars, sdkVars, timerVars, syncVars, lastTrackId,
                  lastPaused, tgVars, playTrackPending, lastPlayTrackTime, pt,
                  login, relogin, libVars, bootVars, domVars, status, obs >>

SupplementaryPollFires == SupplementaryPollFiresUpTo(MaxPolls)

\* part_000:238-240, the main process takes the refresh-token message of a
\* poll: the handler reads the configuration.
PollRefreshTaken ==
  /\ polls.sent > 0
  /\ polls' = [polls EXCEPT !.sent = @ - 1,
                            !.granted = @ + (IF RefreshReads THEN 1 ELSE 0)]
  /\ evt' = "other"
  /\ UNCHANGED << now, tokenVars, sdkVars, timerVars, timeouts, syncVars,
                  lastTrackId, lastPaused, tgVars, playTrackPending,
                  lastPlayTrackTime, pt, login, relogin, libVars, bootVars,
                  domVars, status, obs >>

\* part_000:256-261, the refresh awaited by a poll is answered with a token
\* in the main process.
PollRefreshAnswered ==
  /\ polls.granted > polls.written
  /\ RefreshWritesBack
  /\ polls' = [polls EXCEPT !.written = @ + 1]
  /\ evt' = "other"
  /\ UNCHANGED << now, accessToken, sdkVars, timerVars, timeouts, syncVars,
                  lastTrackId, lastPaused, tgVars, playTrackPending,
                  lastPlayTrackTime, pt, login, relogin, libVars, bootVars,
                  domVars, status, obs >>

\* renderer.js:104, the reply of that refresh reaches the poll.
PollTokenOk ==
  /\ polls.written > 0
  /\ RefreshOk
  /\ polls' = [polls EXCEPT !.token = @ - 1, !.granted = @ - 1,
                            !.written = @ - 1, !.fetch = @ + 1]
  /\ evt' = "other"
  /\ UNCHANGED << now, cfgRefreshToken, sdkVars, timerVars, timeouts, syncVars, lastTrackId,
                  lastPaused, tgVars, playTrackPending, lastPlayTrackTime, pt,
                  login, relogin, libVars, bootVars, domVars, status, obs >>

\* A poller that stops the Interpolation Clock when a poll fails.
PollFailureStopsClock == clearInterval(progressTimers, progressTimer)

\* renderer.js:186-190, the live Interpolation Clock timers after a failed
\* poll: the catch block touches none.
PollFailureClock == progressTimers

\* renderer.js:186-190, what a failed poll changes: nothing but its own end;
\* left is what remains awaiting.
PollFails(left) ==
  /\ polls' = left
  /\ progressTimers' = PollFailureClock
  /\ evt' = "pollFailed"
  /\ obs' = [obs EXCEPT !.over = 0]
  /\ UNCHANGED << now, tokenVars, sdkVars, progressTimer, pollInterval,
                  intervalTimers, timeouts, syncVars, lastTrackId, lastPaused,
                  tgVars, playTrackPending, lastPlayTrackTime, pt, login, relogin, libVars, bootVars,
                  domVars, status >>

\* renderer.js:104-105, :186-190: a poll gets no token from a refresh that
\* found a refresh token stored (part_000:245, :263).
PollTokenFails ==
  /\ polls.granted > polls.written
  /\ PollFails([polls EXCEPT !.token = @ - 1, !.granted = @ - 1])

\* renderer.js:104-105, :186-190: a poll gets no token, its refresh having
\* found no refresh token stored (part_000:240).
PollTokenRefused ==
  /\ polls.token - polls.sent > polls.granted
  /\ PollFails([polls EXCEPT !.token = @ - 1])

\* renderer.js:106-117, :186-190: a poll's request fails.
PollFetchFails ==
  /\ polls.fetch > 0
  /\ PollFails([polls EXCEPT !.fetch = @ - 1])

\* A poller that leaves the Interpolation Clock running when nothing is
\* loaded.
NothingLoadedKeepsClock == progressTimers

\* renderer.js:145, the live Interpolation Clock timers after a response
\* with nothing loaded.
NothingLoadedClock == clearInterval(progressTimers, progressTimer)

\* renderer.js:143-147: the remote reports nothing loaded.
PollNothingLoaded ==
  /\ polls.fetch > 0
  /\ polls' = [polls EXCEPT !.fetch = @ - 1]
  /\ progressTimers' = NothingLoadedClock
  /\ evt' = "other"
  /\ obs' = [obs EXCEPT !.over = 0]
  /\ UNCHANGED << now, tokenVars, sdkVars, progressTimer, pollInterval,
                  intervalTimers, timeouts, syncVars, lastTrackId, lastPaused,
                  tgVars, playTrackPending, lastPlayTrackTime, pt, login, relogin, libVars, bootVars,
                  domVars, status >>

\* renderer.js:344-361, updateBarNowPlaying and the updateProgressEl it calls.
updateBarNowPlaying(track, isPlaying, posMs) ==
  IF bar = "in"
  THEN /\ nowPlaying' = track
       /\ progressEl' = posMs
       /\ ppBtn' = [text |-> Glyph(~isPlaying), disabled |-> FALSE]
  ELSE UNCHANGED << nowPlaying, progressEl, ppBtn >>

\* A poller that starts a timer without cancelling the one running.
PollAddsClock(isPlaying) ==
  IF isPlaying
  THEN /\ progressTimer' = NewTimerId
       /\ progressTimers' = progressTimers \cup {NewTimerId}
  ELSE /\ progressTimer' = progressTimer
       /\ progressTimers' = clearInterval(progressTimers, progressTimer)

\* renderer.js:174-185, the Interpolation Clock after a snapshot.
PollRestartsClock(isPlaying) ==
  IF isPlaying
  THEN /\ progressTimer' = NewTimerId
       /\ progressTimers' =
            clearInterval(progressTimers, progressTimer) \cup {NewTimerId}
  ELSE /\ progressTimer' = progressTimer
       /\ progressTimers' = clearInterval(progressTimers, progressTimer)

\* A poller that stores is_playing as the paused belief.
PollBeliefUnnegated(isPlaying) == isPlaying

\* renderer.js:158, the paused belief a response sets.
PollBelief(isPlaying) == ~isPlaying

\* A poller that discards a position behind the one it holds.
PollSyncPosNeverBack(posMs) == IF posMs < pollSyncPos THEN pollSyncPos ELSE posMs

\* renderer.js:155, the baseline position a response sets: its own, with no
\* comparison against the one held.
PollSyncPos(posMs) == posMs

\* The observer's record of response r arriving now. Where overlap is
\* watched, over counts the responses with a loaded track that arrived from
\* polls that overlapped: 1 when another poll is still awaiting its response,
\* 2 when the response before this one was such a one.
PollObserved(r, watch) ==
  [obs EXCEPT !.resp = [seen |-> TRUE, at |-> now, r |-> r],
              !.over = IF ~watch THEN 0
                       ELSE IF PollsInFlight > 1 THEN 1
                       ELSE IF obs.over = 1 THEN 2 ELSE 0]

\* renderer.js:149-185: a response with a loaded track, drawn from the
\* responses R.
PollSnapshotWatching(R, watch) ==
  /\ polls.fetch > 0
  /\ polls' = [polls EXCEPT !.fetch = @ - 1]
  /\ \E r \in R :
       /\ pollSyncPos' = PollSyncPos(r.posMs)
       /\ pollSyncAt' = now
       /\ pollDuration' = r.durMs
       /\ lastTrackId' = r.track
       /\ lastPaused' = PollBelief(r.isPlaying)
       /\ updateBarNowPlaying(r.track, r.isPlaying, r.posMs)
       /\ PollRestartsClock(r.isPlaying)
       /\ obs' = PollObserved(r, watch)
  /\ evt' = "snapshot"
  /\ UNCHANGED << now, tokenVars, sdkVars, pollInterval, intervalTimers,
                  timeouts, tgVars, playTrackPending, lastPlayTrackTime, pt,
                  login, relogin, libVars, bootVars, bar, status >>

\* The same with overlap unwatched.
PollSnapshotOf(R) == PollSnapshotWatching(R, FALSE)

PollSnapshot == PollSnapshotOf(Responses)

\* A clock that counts from start-up instead of from the sample time.
EstimatedPosFromStart == pollSyncPos + (now - StartNow)

\* renderer.js:178, the estimated position.
EstimatedPos == pollSyncPos + (now - pollSyncAt)

\* A clock that never checks the duration.
ProgressUnchecked == TRUE

\* renderer.js:179, the estimate is within the track.
ProgressWithinDuration == EstimatedPos <= pollDuration

\* renderer.js:177-184, one run of the Interpolation Clock callback.
ProgressTick ==
  /\ \E id \in progressTimers :
       IF ProgressWithinDuration
       THEN /\ progressEl' = IF bar = "in" THEN EstimatedPos ELSE progressEl
            /\ UNCHANGED progressTimers
       ELSE /\ progressTimers' = clearInterval(progressTimers, progressTimer)
            /\ UNCHANGED progressEl
  /\ evt' = "progress"
  /\ UNCHANGED << now, tokenVars, sdkVars, progressTimer, pollInterval,
                  intervalTimers, timeouts, syncVars, lastTrackId, lastPaused,
                  tgVars, playTrackPending, lastPlayTrackTime, pt, polls,
                  login, relogin, libVars, bootVars, bar, nowPlaying, ppBtn, status, obs >>

\* ---------------------------------------------------------------- playTrack

\* A dispatcher without the 500 ms guard.
PlayTrackRejectsPendingOnly == playTrackPending

\* renderer.js:207-209, the guards that reject an invocation.
PlayTrackRejects ==
  \/ playTrackPending
  \/ now - lastPlayTrackTime < ThrottleMs

\* A resolver that ignores the active flag.
PickFirstDevice(devices) ==
  IF Len(devices) > 0 THEN devices[1].id ELSE NULL

\* renderer.js:199, the device picked from a device list (NULL: none).
PickDevice(devices) ==
  IF \E i \in 1..Len(devices) : devices[i].is_active
  THEN devices[CHOOSE i \in 1..Len(devices) :
                 /\ devices[i].is_active
                 /\ \A j \in 1..(i - 1) : ~devices[j].is_active].id
  ELSE IF Len(devices) > 0 THEN devices[1].id ELSE NULL

\* renderer.js:225-228, the play request of playTrack(trackId).
PlayRequest(deviceId, trackId, stage) ==
  [pc |-> "play", stage |-> stage, sent |-> RefreshSent(stage),
   rt |-> FALSE, wb |-> FALSE,
   trackId |-> trackId, deviceId |-> deviceId,
   uri |-> << "spotify", "track", trackId >>]

\* The call site of playTrack(trackId): a click on the card of a track that is
\* not the one believed to be playing (renderer.js:580-584).
PlayTrackInvoked(trackId) == ~(lastTrackId = trackId /\ ~lastPaused)

\* renderer.js:207-209, an invocation rejected by a guard.
PlayTrackRejected ==
  /\ \E trackId \in TrackIds : PlayTrackInvoked(trackId)
  /\ PlayTrackRejects
  /\ evt' = "playTrack"
  /\ UNCHANGED << now, tokenVars, sdkVars, timerVars, syncVars, lastTrackId,
                  lastPaused, tgVars, ptVars, polls, login, relogin, libVars, bootVars,
                  domVars, status, obs >>

\* A dispatcher that never records the time of an accepted invocation.
PlayTrackRecordTimeNever == lastPlayTrackTime

\* renderer.js:212, the timestamp an accepted invocation records.
PlayTrackRecordTime == now

\* A playTrack that believes at once that the track plays.
PlayTrackBeliefOptimistic == FALSE

\* renderer.js:211-214, the belief after an invocation is accepted: playTrack
\* makes no optimistic update.
PlayTrackBelief == lastPaused

\* The observer's record of playTrack(trackId) being accepted now: when, for
\* which track, and what it knew of the accepted invocation before it.
PlayTrackObserved(trackId) ==
  [obs EXCEPT !.ptAt = now, !.ptTrack = trackId, !.ptRes = "pending",
              !.ptPrev = << obs.ptAt, obs.ptTrack, obs.ptRes >>,
              !.ptDevices = NoDevices]

\* renderer.js:211-228 with sdkDeviceId set (renderer.js:196): the device is
\* known, the supplementary poll is scheduled and the request is sent; the
\* card clicked is one of the tracks T.
PlayTrackViaSdkDeviceOf(T) ==
  /\ ~PlayTrackRejects
  /\ sdkDeviceId # NULL
  /\ \E trackId \in T, stage \in FetchStages :
       /\ PlayTrackInvoked(trackId)
       /\ pt' = PlayRequest(sdkDeviceId, trackId, stage)
       /\ obs' = PlayTrackObserved(trackId)
  /\ playTrackPending' = TRUE
  /\ lastPlayTrackTime' = PlayTrackRecordTime
  /\ lastPaused' = PlayTrackBelief
  /\ timeouts' = timeouts + 1
  /\ evt' = "playTrack"
  /\ UNCHANGED << now, tokenVars, sdkVars, timerVars, syncVars, lastTrackId,
                  tgVars, polls, login, relogin, libVars, bootVars, domVars, status >>

PlayTrackViaSdkDevice == PlayTrackViaSdkDeviceOf(TrackIds)

\* renderer.js:211-214, :197-198: no in-process device, the device list is
\* requested; the card clicked is one of the tracks T.
PlayTrackAsksDevicesOf(T) ==
  /\ ~PlayTrackRejects
  /\ sdkDeviceId = NULL
  /\ \E trackId \in T, stage \in FetchStages :
       /\ PlayTrackInvoked(trackId)
       /\ pt' = [PtIdle EXCEPT !.pc = "devices", !.stage = stage,
                               !.sent = RefreshSent(stage),
                               !.trackId = trackId]
       /\ obs' = PlayTrackObserved(trackId)
  /\ playTrackPending' = TRUE
  /\ lastPlayTrackTime' = PlayTrackRecordTime
  /\ lastPaused' = PlayTrackBelief
  /\ evt' = "playTrack"
  /\ UNCHANGED << now, tokenVars, sdkVars, timerVars, timeouts, syncVars,
                  lastTrackId, tgVars, polls, login, relogin, libVars, bootVars, domVars,
                  status >>

PlayTrackAsksDevices == PlayTrackAsksDevicesOf(TrackIds)

\* part_000:238-240, the main process takes the refresh-token message of
\* playTrack's current request: the handler reads the configuration.
PlayTrackRefreshTaken ==
  /\ pt.stage = "token"
  /\ pt.sent
  /\ pt' = [pt EXCEPT !.sent = FALSE, !.rt = RefreshReads]
  /\ evt' = "other"
  /\ UNCHANGED << now, tokenVars, sdkVars, timerVars, timeouts, syncVars,
                  lastTrackId, lastPaused, tgVars, playTrackPending,
                  lastPlayTrackTime, polls, login, relogin, libVars,
                  bootVars, domVars, status, obs >>

\* part_000:256-261, the refresh awaited by playTrack's current request is
\* answered with a token in the main process.
PlayTrackRefreshAnswered ==
  /\ pt.stage = "token"
  /\ pt.rt
  /\ ~pt.wb
  /\ RefreshWritesBack
  /\ pt' = [pt EXCEPT !.wb = TRUE]
  /\ evt' = "other"
  /\ UNCHANGED << now, accessToken, sdkVars, timerVars, timeouts, syncVars,
                  lastTrackId, lastPaused, tgVars, playTrackPending,
                  lastPlayTrackTime, polls, login, relogin, libVars,
                  bootVars, domVars, status, obs >>

\* renderer.js:104, the reply of that refresh reaches playTrack's current
\* request.
PlayTrackTokenOk ==
  /\ pt.stage = "token"
  /\ pt.wb
  /\ RefreshOk
  /\ pt' = [pt EXCEPT !.stage = "fetch", !.rt = FALSE, !.wb = FALSE]
  /\ evt' = "other"
  /\ UNCHANGED << now, cfgRefreshToken, sdkVars, timerVars, timeouts, syncVars, lastTrackId,
                  lastPaused, tgVars, playTrackPending, lastPlayTrackTime,
                  polls, login, relogin, libVars, bootVars, domVars, status, obs >>

\* A playTrack that aborts without telling the user.
PlayTrackNoDeviceSilent == status

\* renderer.js:217, the status shown when no device is found.
PlayTrackNoDeviceStatus == setStatus(MsgNoDevice, "error")

\* An early return that leaves the pending flag as it is.
PlayTrackNoDeviceHolds == playTrackPending

\* renderer.js:218, the pending flag when the invocation aborts for want of
\* a device.
PlayTrackNoDeviceRelease == FALSE

\* renderer.js:215-219: no device, the invocation aborts; seen is what the
\* device lookup got.
PlayTrackNoDevice(seen) ==
  /\ status' = PlayTrackNoDeviceStatus
  /\ playTrackPending' = PlayTrackNoDeviceRelease
  /\ pt' = PtIdle
  /\ evt' = "other"
  /\ obs' = [obs EXCEPT !.ptRes = "nodevice", !.ptDoneAt = now,
                        !.ptDevices = seen]
  /\ UNCHANGED << now, tokenVars, sdkVars, timerVars, timeouts, syncVars,
                  lastTrackId, lastPaused, tgVars, lastPlayTrackTime, polls,
                  login, relogin, libVars, bootVars, domVars >>

\* renderer.js:198-201: the device-list request fails (no token, or a failed
\* response); the error is caught and no device is returned.
PlayTrackDevicesFail ==
  /\ pt.pc = "devices"
  /\ pt.stage \in {"token", "fetch"}
  /\ ~pt.sent
  /\ ~pt.wb
  /\ PlayTrackNoDevice([got |-> "failed", list |-> << >>])

\* renderer.js:198-202, :215-228: the device list arrives.
PlayTrackDevicesArrive ==
  /\ pt.pc = "devices"
  /\ pt.stage = "fetch"
  /\ \E devices \in DeviceLists :
       IF PickDevice(devices) = NULL
       THEN PlayTrackNoDevice([got |-> "list", list |-> devices])
       ELSE /\ \E stage \in FetchStages :
                 pt' = PlayRequest(PickDevice(devices), pt.trackId, stage)
            /\ timeouts' = timeouts + 1
            /\ evt' = "other"
            /\ obs' = [obs EXCEPT
                         !.ptDevices = [got |-> "list", list |-> devices]]
            /\ UNCHANGED << now, tokenVars, sdkVars, timerVars, syncVars,
                            lastTrackId, lastPaused, tgVars, playTrackPending,
                            lastPlayTrackTime, polls, login, relogin, libVars, bootVars,
                            domVars, status >>

\* renderer.js:231-233: the play request settled and the invocation ends.
PlayTrackEnds(result) ==
  /\ playTrackPending' = FALSE
  /\ pt' = PtIdle
  /\ evt' = "other"
  /\ obs' = [obs EXCEPT !.ptRes = result, !.ptDoneAt = now,
                        !.ptDevices = NoDevices]
  /\ UNCHANGED << now, tokenVars, sdkVars, timerVars, timeouts, syncVars,
                  lastTrackId, lastPaused, tgVars, lastPlayTrackTime, polls,
                  login, relogin, libVars, bootVars, domVars >>

\* renderer.js:224-228: the play request succeeds.
PlayTrackPlayOk ==
  /\ pt.pc = "play"
  /\ pt.stage = "fetch"
  /\ PlayTrackEnds("ok")
  /\ UNCHANGED status

\* renderer.js:229-233: the play request threw err with message msg.
PlayTrackFails(msg) ==
  /\ status' = setStatusError(ErrText(msg))
  /\ PlayTrackEnds("failed")

\* renderer.js:229-230: the play request throws (no token, or a failed
\* response).
PlayTrackPlayFails ==
  /\ pt.pc = "play"
  /\ ~pt.sent
  /\ ~pt.wb
  /\ \E msg \in (IF pt.stage = "token" THEN TokenErrors ELSE FetchErrors) :
       PlayTrackFails(msg)

\* ------------------------------------------------------ in-process session

\* renderer.js:286, the session reports ready.
SdkReady ==
  /\ spotifyPlayer
  /\ sdkDeviceId' = SdkDevice
  /\ status' = setStatus(MsgPlayerReady, "ok")
  /\ evt' = "other"
  /\ UNCHANGED << now, tokenVars, spotifyPlayer, timerVars, timeouts,
                  syncVars, lastTrackId, lastPaused, tgVars,
                  playTrackPending, lastPlayTrackTime, pt, polls, login, relogin, libVars, bootVars, domVars, obs >>

\* renderer.js:287, the session reports not ready.
SdkNotReady ==
  /\ spotifyPlayer
  /\ sdkDeviceId' = NULL
  /\ evt' = "other"
  /\ UNCHANGED << now, tokenVars, spotifyPlayer, timerVars, timeouts,
                  syncVars, lastTrackId, lastPaused, tgVars,
                  playTrackPending, lastPlayTrackTime, pt, polls, login, relogin, libVars, bootVars, domVars, status, obs >>

\* renderer.js:288-291, a player_state_changed event with a state whose
\* track is one of T.
SdkStateChangedOf(T) ==
  /\ spotifyPlayer
  /\ \E track \in T, paused \in BOOLEAN :
       /\ lastTrackId' = track
       /\ lastPaused' = paused
  /\ evt' = "other"
  /\ UNCHANGED << now, tokenVars, sdkVars, timerVars, timeouts, syncVars,
                  tgVars, playTrackPending, lastPlayTrackTime, pt, polls,
                  login, relogin, libVars, bootVars, domVars, status, obs >>

SdkStateChanged == SdkStateChangedOf({"X", NULL})

\* ------------------------------------------------------------ login, logout

\* The button an awaiting togglePlayPause holds once the bar is rendered
\* again: an element no longer in the document.
DetachBtn == IF tg.btn = "live" THEN [tg EXCEPT !.btn = "detached"] ELSE tg

\* renderer.js:311-342, renderBarLoggedIn.
renderBarLoggedIn ==
  /\ bar' = "in"
  /\ nowPlaying' = "idle"
  /\ ppBtn' = NoBtn
  /\ progressEl' = 0

\* renderer.js:303-309, renderBarLoggedOut.
renderBarLoggedOut ==
  /\ bar' = "out"
  /\ nowPlaying' = "idle"
  /\ ppBtn' = NoBtn
  /\ progressEl' = 0

\* renderer.js:277-298, initPlayer: with the SDK script loaded the player is
\* set up at once (a player already there is disconnected and replaced);
\* otherwise the setup is left for the script to call.
initPlayer ==
  /\ spotifyPlayer' = (IF sdkLoaded THEN TRUE ELSE spotifyPlayer)
  /\ sdkSetup' = (IF sdkLoaded THEN sdkSetup ELSE TRUE)

\* renderer.js:390-393 (and :740-742): the bar, the player, the poller.
EnterSession ==
  /\ renderBarLoggedIn
  /\ tg' = DetachBtn
  /\ initPlayer
  /\ startPolling

\* The SDK script finishes loading: window.Spotify is defined and the script
\* calls window.onSpotifyWebPlaybackSDKReady once, the setup an earlier
\* initPlayer left there (renderer.js:279-295, :298), whatever has happened
\* since.
SdkScriptLoads ==
  /\ ~sdkLoaded
  /\ sdkLoaded' = TRUE
  /\ sdkSetup' = FALSE
  /\ spotifyPlayer' = (IF sdkSetup THEN TRUE ELSE spotifyPlayer)
  /\ evt' = "other"
  /\ UNCHANGED << now, tokenVars, sdkDeviceId, timerVars, timeouts, syncVars,
                  lastTrackId, lastPaused, tgVars, playTrackPending,
                  lastPlayTrackTime, pt, polls, login, relogin, libVars,
                  boot, others, logoutVars, domVars, status, obs >>

\* renderer.js:733-738, start-up with a stored refresh token: the reply of
\* the refresh brings an access token and getMe is awaited; the track cards
\* are already rendered (renderer.js:730-731). The handler has written back
\* the refresh token it read, which nothing can have deleted meanwhile (no
\* logout button before the first bar).
InitRefreshOk ==
  /\ boot = "start"
  /\ cfgRefreshToken
  /\ RefreshOk
  /\ UNCHANGED cfgRefreshToken
  /\ boot' = "getMe"
  /\ evt' = "other"
  /\ UNCHANGED << now, sdkVars, timerVars, timeouts, syncVars, lastTrackId,
                  lastPaused, tgVars, playTrackPending, lastPlayTrackTime,
                  pt, polls, login, relogin, libVars, sdkLoaded, sdkSetup,
                  others, logoutVars, domVars, status, obs >>

\* renderer.js:735 with part_000:245, :286-313: the refresh-token call of
\* start-up rejects; the start-up function has no handler and ends there,
\* with no bar rendered.
InitRefreshRejects ==
  /\ boot = "start"
  /\ cfgRefreshToken
  /\ boot' = "done"
  /\ evt' = "unhandled"
  /\ UNCHANGED << now, tokenVars, sdkVars, timerVars, timeouts, syncVars,
                  lastTrackId, lastPaused, tgVars, playTrackPending,
                  lastPlayTrackTime, pt, polls, login, relogin, libVars,
                  sdkLoaded, sdkSetup, others, logoutVars, domVars, status, obs >>

\* renderer.js:739-743, start-up: getMe settled (either way); the session
\* starts.
InitLoggedIn ==
  /\ boot = "getMe"
  /\ EnterSession
  /\ boot' = "done"
  /\ evt' = "other"
  /\ UNCHANGED << now, tokenVars, sdkDeviceId, timeouts, syncVars,
                  lastTrackId, lastPaused, playbackCommandPending,
                  lastPlaybackCommandTime, sdkToggles, playTrackPending,
                  lastPlayTrackTime, pt, login, relogin, libVars, sdkLoaded,
                  others, logoutVars, status, obs >>

\* renderer.js:733-736, :747-748: start-up without a stored refresh token, or
\* with a refresh that answered without an access token: the logged-out bar
\* is rendered and the get-credentials message is sent.
InitLoggedOut ==
  /\ boot = "start"
  /\ renderBarLoggedOut
  /\ tg' = DetachBtn
  /\ boot' = "getCreds"
  /\ evt' = "other"
  /\ UNCHANGED << now, tokenVars, sdkVars, timerVars, timeouts, syncVars,
                  lastTrackId, lastPaused, playbackCommandPending,
                  lastPlaybackCommandTime, sdkToggles, playTrackPending,
                  lastPlayTrackTime, pt, polls, login, relogin, libVars,
                  sdkLoaded, sdkSetup, others, logoutVars, status, obs >>

\* part_000:75-78: the main process takes the get-credentials message; the
\* handler reads the configuration as it is then.
InitCredentialsTaken ==
  /\ boot = "getCreds"
  /\ boot' = (IF credentials THEN "hasCreds" ELSE "noCreds")
  /\ evt' = "other"
  /\ UNCHANGED << now, tokenVars, sdkVars, timerVars, timeouts, syncVars,
                  lastTrackId, lastPaused, tgVars, playTrackPending,
                  lastPlayTrackTime, pt, polls, login, relogin, libVars,
                  sdkLoaded, sdkSetup, others, logoutVars, domVars, status,
                  obs >>

\* renderer.js:748-749: the reply of get-credentials reaches the renderer;
\* without a client id in it the user is pointed to the settings.
InitCredentials ==
  /\ boot \in {"hasCreds", "noCreds"}
  /\ status' = (IF boot = "noCreds"
                THEN setStatus(MsgNoCredentials, "info")
                ELSE status)
  /\ boot' = "done"
  /\ evt' = "other"
  /\ UNCHANGED << now, tokenVars, sdkVars, timerVars, timeouts, syncVars,
                  lastTrackId, lastPaused, tgVars, playTrackPending,
                  lastPlayTrackTime, pt, polls, login, relogin, libVars,
                  sdkLoaded, sdkSetup, others, logoutVars, domVars, obs >>

\* The two handleLogin calls that are followed: the first (its position is
\* login) and one started while the first is awaited (relogin).
LoginAt(k) == IF k = 1 THEN login ELSE relogin
LoginRest(k) == IF k = 1 THEN "idle" ELSE "none"
LoginMoves(k, pos) ==
  IF k = 1 THEN login' = pos /\ UNCHANGED relogin
           ELSE relogin' = pos /\ UNCHANGED login

\* renderer.js:375-377, handleLogin up to the await of spotifyOAuth: the
\* status is set and the spotify-oauth message is sent.
HandleLoginOf(k) ==
  /\ bar = "out"
  /\ status' = setStatus(MsgLoginOpen, "info")
  /\ LoginMoves(k, "sent")
  /\ evt' = "other"
  /\ UNCHANGED << now, tokenVars, sdkVars, timerVars, timeouts, syncVars,
                  lastTrackId, lastPaused, tgVars, playTrackPending,
                  lastPlayTrackTime, pt, polls, libVars, bootVars, domVars,
                  obs >>

\* part_000:171-173: the main process takes the spotify-oauth message; the
\* handler reads the client id as it is then, and returns its error when
\* there is none or else opens the login window.
LoginOAuthTakenOf(k) ==
  /\ LoginAt(k) = "sent"
  /\ LoginMoves(k, IF credentials THEN "oauth" ELSE "noClient")
  /\ evt' = "other"
  /\ UNCHANGED << now, tokenVars, sdkVars, timerVars, timeouts, syncVars,
                  lastTrackId, lastPaused, tgVars, playTrackPending,
                  lastPlayTrackTime, pt, polls, libVars, bootVars, domVars,
                  status, obs >>

\* renderer.js:378: the reply of spotify-oauth carries an error (no client id
\* was found, access was denied, or the window was closed).
LoginOAuthFailsOf(k) ==
  /\ LoginAt(k) \in {"oauth", "noClient"}
  /\ status' = setStatus(IF LoginAt(k) = "noClient" THEN MsgNoClientId
                                                   ELSE MsgLoginFailed,
                         "error")
  /\ LoginMoves(k, LoginRest(k))
  /\ evt' = "other"
  /\ UNCHANGED << now, tokenVars, sdkVars, timerVars, timeouts, syncVars,
                  lastTrackId, lastPaused, tgVars, playTrackPending,
                  lastPlayTrackTime, pt, polls, libVars, bootVars, domVars,
                  obs >>

\* renderer.js:380-381: the reply of spotify-oauth carries a code;
\* exchangeCode is awaited.
LoginOAuthCodeOf(k) ==
  /\ LoginAt(k) = "oauth"
  /\ status' = setStatus(MsgLoggingIn, "info")
  /\ LoginMoves(k, "exchange")
  /\ evt' = "other"
  /\ UNCHANGED << now, tokenVars, sdkVars, timerVars, timeouts, syncVars,
                  lastTrackId, lastPaused, tgVars, playTrackPending,
                  lastPlayTrackTime, pt, polls, libVars, bootVars, domVars,
                  obs >>

\* renderer.js:382 with part_000:235: exchangeCode answers with an error.
LoginExchangeFailsOf(k) ==
  /\ LoginAt(k) = "exchange"
  /\ status' = setStatus(MsgExchangeFailed, "error")
  /\ LoginMoves(k, LoginRest(k))
  /\ evt' = "other"
  /\ UNCHANGED << now, tokenVars, sdkVars, timerVars, timeouts, syncVars,
                  lastTrackId, lastPaused, tgVars, playTrackPending,
                  lastPlayTrackTime, pt, polls, libVars, bootVars, domVars,
                  obs >>

\* renderer.js:381 with part_000:217, :286-313: the exchange-code call
\* rejects (an HTTP error status from the token endpoint); handleLogin has
\* no handler and ends there, the status left as it is.
LoginExchangeRejectsOf(k) ==
  /\ LoginAt(k) = "exchange"
  /\ LoginMoves(k, LoginRest(k))
  /\ evt' = "unhandled"
  /\ UNCHANGED << now, tokenVars, sdkVars, timerVars, timeouts, syncVars,
                  lastTrackId, lastPaused, tgVars, playTrackPending,
                  lastPlayTrackTime, pt, polls, libVars, bootVars, domVars,
                  status, obs >>

\* part_000:228-233: the token endpoint answers the code exchange with the
\* tokens and the handler writes them into the configuration.
LoginExchangeAnsweredOf(k) ==
  /\ LoginAt(k) = "exchange"
  /\ cfgRefreshToken' = TRUE
  /\ LoginMoves(k, "exchanged")
  /\ evt' = "other"
  /\ UNCHANGED << now, accessToken, sdkVars, timerVars, timeouts, syncVars,
                  lastTrackId, lastPaused, tgVars, playTrackPending,
                  lastPlayTrackTime, pt, polls, libVars, bootVars, domVars,
                  status, obs >>

\* renderer.js:382-387: the reply of the code exchange brings the tokens;
\* getMe is awaited.
LoginTokensOf(k) ==
  /\ LoginAt(k) = "exchanged"
  /\ accessToken' = "tok"
  /\ LoginMoves(k, "getMe")
  /\ evt' = "other"
  /\ UNCHANGED << now, cfgRefreshToken, sdkVars, timerVars, timeouts, syncVars, lastTrackId,
                  lastPaused, tgVars, playTrackPending, lastPlayTrackTime, pt,
                  polls, libVars, bootVars, domVars, status, obs >>

\* renderer.js:387-393: getMe settled (either way); the bar is rendered and
\* the player and the poller are started, whatever has happened meanwhile.
LoginCompletesOf(k) ==
  /\ LoginAt(k) = "getMe"
  /\ status' = setStatus(MsgLoggedIn, "ok")
  /\ EnterSession
  /\ LoginMoves(k, LoginRest(k))
  /\ evt' = "other"
  /\ UNCHANGED << now, tokenVars, sdkDeviceId, timeouts, syncVars,
                  lastTrackId, lastPaused, playbackCommandPending,
                  lastPlaybackCommandTime, sdkToggles, playTrackPending,
                  lastPlayTrackTime, pt, libVars, boot, sdkLoaded, others, logoutVars,
                  obs >>

\* The first handleLogin (call 1): the login button is clicked with no
\* handleLogin or handleLogout awaited.
HandleLogin == login = "idle" /\ HandleLoginOf(1)

\* renderer.js:306-307, :375-377: the login button stays in the logged-out bar
\* while a handleLogin is awaited, and is clicked again (call 2).
HandleLoginAgain ==
  /\ login \in {"sent", "oauth", "noClient", "exchange", "exchanged",
                "getMe"}
  /\ relogin = "none"
  /\ HandleLoginOf(2)

\* The other callers of getValidToken: getMe (start-up and handleLogin,
\* renderer.js:120, :387, :737) and the requests of the library browser
\* (renderer.js:121-123, :476, :499), which catch what it throws, and the
\* player's getOAuthToken (renderer.js:283), which does not.
\* others.token counts the refreshes they await, others.player those of
\* them awaited by getOAuthToken; sent, granted and written as for polls.

\* renderer.js:93-94: one of them awaits a refresh. The player asks while it
\* exists; the listeners of the library browser stay in the document.
OtherAsksToken ==
  /\ others.token < MaxTokenCalls
  /\ \E byPlayer \in BOOLEAN :
       /\ byPlayer => spotifyPlayer
       /\ others' = [others EXCEPT
                       !.token = @ + 1,
                       !.sent = @ + 1,
                       !.player = @ + (IF byPlayer THEN 1 ELSE 0)]
  /\ evt' = "other"
  /\ UNCHANGED << now, tokenVars, sdkVars, timerVars, timeouts, syncVars,
                  lastTrackId, lastPaused, tgVars, playTrackPending,
                  lastPlayTrackTime, pt, polls, login, relogin, libVars,
                  boot, sdkLoaded, sdkSetup, logoutVars, domVars, status, obs >>

\* part_000:238-240, the main process takes that refresh-token message: the
\* handler reads the configuration.
OtherRefreshTaken ==
  /\ others.sent > 0
  /\ others' = [others EXCEPT
                  !.sent = @ - 1,
                  !.granted = @ + (IF RefreshReads THEN 1 ELSE 0)]
  /\ evt' = "other"
  /\ UNCHANGED << now, tokenVars, sdkVars, timerVars, timeouts, syncVars,
                  lastTrackId, lastPaused, tgVars, playTrackPending,
                  lastPlayTrackTime, pt, polls, login, relogin, libVars,
                  boot, sdkLoaded, sdkSetup, logoutVars, domVars, status, obs >>

\* part_000:256-261, that refresh is answered with a token in the main
\* process.
OtherRefreshAnswered ==
  /\ others.granted > others.written
  /\ RefreshWritesBack
  /\ others' = [others EXCEPT !.written = @ + 1]
  /\ evt' = "other"
  /\ UNCHANGED << now, accessToken, sdkVars, timerVars, timeouts, syncVars,
                  lastTrackId, lastPaused, tgVars, playTrackPending,
                  lastPlayTrackTime, pt, polls, login, relogin, libVars,
                  boot, sdkLoaded, sdkSetup, logoutVars, domVars, status, obs >>

\* The refreshes awaited once one awaited by getOAuthToken (byPlayer) or by
\* another caller has ended; rest is the record without it.
OtherEnds(rest, byPlayer) ==
  /\ IF byPlayer THEN others.player > 0 ELSE others.token > others.player
  /\ others' = [rest EXCEPT !.token = @ - 1,
                            !.player = @ - (IF byPlayer THEN 1 ELSE 0)]

\* renderer.js:95-98: the reply reaches the caller's getValidToken, which
\* stores the token.
OtherTokenOk ==
  /\ others.written > 0
  /\ RefreshOk
  /\ \E byPlayer \in BOOLEAN :
       OtherEnds([others EXCEPT !.granted = @ - 1, !.written = @ - 1],
                 byPlayer)
  /\ evt' = "other"
  /\ UNCHANGED << now, cfgRefreshToken, sdkVars, timerVars, timeouts, syncVars, lastTrackId,
                  lastPaused, tgVars, playTrackPending, lastPlayTrackTime,
                  pt, polls, login, relogin, libVars, boot, sdkLoaded,
                  sdkSetup, logoutVars, domVars, status, obs >>

\* renderer.js:100: that refresh answers without a token (none stored,
\* part_000:240, or none granted, part_000:263): getValidToken returns null,
\* which every caller deals with.
OtherTokenFails ==
  /\ \E byPlayer \in BOOLEAN :
       \/ /\ others.granted > others.written
          /\ OtherEnds([others EXCEPT !.granted = @ - 1], byPlayer)
       \/ /\ others.token - others.sent > others.granted
          /\ OtherEnds(others, byPlayer)
  /\ evt' = "other"
  /\ UNCHANGED << now, tokenVars, sdkVars, timerVars, timeouts, syncVars,
                  lastTrackId, lastPaused, tgVars, playTrackPending,
                  lastPlayTrackTime, pt, polls, login, relogin, libVars,
                  boot, sdkLoaded, sdkSetup, logoutVars, domVars, status, obs >>

\* renderer.js:94 with part_000:286-313: the refresh-token call rejects (the
\* token endpoint sent nothing that parses). getMe and the library browser
\* catch it (renderer.js:387-388, :737, :490, :503); getOAuthToken
\* (renderer.js:283) has no handler.
OtherTokenRejects ==
  /\ others.granted > others.written
  /\ \E byPlayer \in BOOLEAN :
       /\ OtherEnds([others EXCEPT !.granted = @ - 1], byPlayer)
       /\ evt' = IF byPlayer THEN "unhandled" ELSE "other"
  /\ UNCHANGED << now, tokenVars, sdkVars, timerVars, timeouts, syncVars,
                  lastTrackId, lastPaused, tgVars, playTrackPending,
                  lastPlayTrackTime, pt, polls, login, relogin, libVars,
                  boot, sdkLoaded, sdkSetup, logoutVars, domVars, status, obs >>

\* renderer.js:396-408, the logout button is clicked: everything up to the
\* await of window.api.logout(). The button stays in the bar until a reply
\* has rendered the logged-out bar.
HandleLogout ==
  /\ bar = "in"
  /\ logouts < MaxLogouts
  /\ progressTimers' = StopPollingTimers.progress
  /\ intervalTimers' = StopPollingTimers.interval
  /\ progressTimer' = NULL
  /\ pollInterval' = NULL
  /\ spotifyPlayer' = FALSE
  /\ sdkDeviceId' = NULL
  /\ accessToken' = NULL
  /\ lastTrackId' = NULL
  /\ lastPaused' = TRUE
  /\ logouts' = logouts + 1
  /\ evt' = "other"
  /\ UNCHANGED << now, cfgRefreshToken, timeouts, syncVars, tgVars,
                  playTrackPending, lastPlayTrackTime, pt, polls, login,
                  relogin, libVars, boot, sdkLoaded, sdkSetup, others,
                  logoutsHandled, domVars, status, obs >>

\* part_000:275-282, the main process takes a logout message: the handler
\* deletes the stored tokens and answers.
LogoutHandled ==
  /\ logoutsHandled < logouts
  /\ cfgRefreshToken' = FALSE
  /\ logoutsHandled' = logoutsHandled + 1
  /\ evt' = "other"
  /\ UNCHANGED << now, accessToken, sdkVars, timerVars, timeouts,
                  syncVars, lastTrackId, lastPaused, tgVars,
                  playTrackPending, lastPlayTrackTime, pt, polls, login,
                  relogin, libVars, boot, sdkLoaded, sdkSetup, others,
                  logouts, domVars, status, obs >>

\* renderer.js:408-409, the reply of a logout reaches handleLogout: the
\* logged-out bar is rendered.
LogoutCompletes ==
  /\ logoutsHandled > 0
  /\ renderBarLoggedOut
  /\ tg' = DetachBtn
  /\ logouts' = logouts - 1
  /\ logoutsHandled' = logoutsHandled - 1
  /\ evt' = "other"
  /\ UNCHANGED << now, tokenVars, sdkVars, timerVars, timeouts,
                  syncVars, lastTrackId, lastPaused, playbackCommandPending,
                  lastPlaybackCommandTime, sdkToggles, playTrackPending,
                  lastPlayTrackTime, pt, polls, login, relogin, libVars,
                  boot, sdkLoaded, sdkSetup, others, status, obs >>

\* ------------------------------------------------------------ track library

\* Texts that are dropped or pasted, and what save-track may be passed,
\* after trim(): a URI spotify:track:ID, a link
\* https://open.spotify.com/track/ID, or other text; id is the text where the
\* ID stands ("" when nothing stands there).
LibraryIds == TrackIds \cup {""}
RawUris == [form : {"uri", "link", "text"}, id : LibraryIds]

\* part_000:89-100, the track id parsed from the input, NULL when there is
\* none: the third piece of a URI, or the run of letters and digits after
\* /track/ in a link (the pattern needs at least one).
ParseTrackId(uri) ==
  IF uri.form = "text" \/ uri.id = "" THEN NULL ELSE uri.id

\* Values update-track writes: a notes text, or a tempo (the one the audio
\* features report).
NotesValues == {"swing"}
BpmValues == {120}
\* The fields update-track is called with (renderer.js:593, :627).
TrackFields == {"notes", "bpm"}
FieldValues(field) == IF field = "notes" THEN NotesValues ELSE BpmValues

\* part_000:120-131, the track built from the two responses, with the tempo
\* of its audio features and no notes.
NewTrack(trackId, bpm) == [id |-> trackId, notes |-> "", bpm |-> bpm]

\* The ids of a list of tracks.
IdsOf(tracks) == { tracks[i].id : i \in 1..Len(tracks) }

\* part_000:142, tracks.filter(t => t.id !== trackId).
RECURSIVE WithoutTrack(_, _)
WithoutTrack(tracks, trackId) ==
  IF tracks = << >> THEN << >>
  ELSE IF Head(tracks).id = trackId
       THEN WithoutTrack(Tail(tracks), trackId)
       ELSE << Head(tracks) >> \o WithoutTrack(Tail(tracks), trackId)

\* part_000:151-153, the first track with the id gets the field assigned.
WithField(tracks, trackId, field, value) ==
  LET hits == { i \in 1..Len(tracks) : tracks[i].id = trackId }
      first == CHOOSE i \in hits : \A j \in hits : i <= j
  IN  [tracks EXCEPT ![first] = [@ EXCEPT ![field] = value]]

\* renderer.js:53-60, extractSpotifyUri: the spotify:track: URI of a dropped
\* or pasted text, NoUri when it holds none (both patterns need a letter or
\* digit where the id stands).
extractSpotifyUri(text) ==
  IF text.form = "text" \/ text.id = "" THEN NoUri
  ELSE [form |-> "uri", id |-> text.id]

\* part_000:100-111, what save-track returns before any request, "none" when
\* it goes on to its requests.
SaveTrackEarlyReturn(uri) ==
  IF ParseTrackId(uri) = NULL THEN "invalid"
  ELSE IF ParseTrackId(uri) \in IdsOf(tracksFile) THEN "duplicate"
  ELSE IF ~credentials THEN "nocreds"
  ELSE "none"

\* renderer.js:690, the message for a track added (its name stands for the
\* name and the artist).
AddedMsg(trackId) == IF trackId = "X" THEN "Added: X" ELSE "Added: Y"

\* renderer.js:688-690, the status handleTrackUri shows for what save-track
\* returned.
SaveTrackStatus(call) ==
  CASE call.ret = "duplicate" -> setStatus(MsgAlreadyInLibrary, "")
    [] call.ret = "invalid" -> setStatus(MsgInvalidUri, "error")
    [] call.ret = "nocreds" -> setStatus(MsgNoSavedCredentials, "error")
    [] call.ret = "failed" -> setStatus(MsgLookupFailed, "error")
    [] OTHER -> setStatus(AddedMsg(call.trackId), "ok")

\* renderer.js:712-715, the settings are saved with a field left empty.
SaveSettingsRejected ==
  /\ status' = setStatus(MsgBothRequired, "error")
  /\ UNCHANGED << libFrame, libVars >>

\* renderer.js:712-716, the settings are saved with both fields filled: the
\* save-credentials message is sent.
SaveSettings ==
  /\ credCalls.sent + credCalls.done < MaxCredCalls
  /\ credCalls' = [credCalls EXCEPT !.sent = @ + 1]
  /\ UNCHANGED << playerVars, tracksFile, credentials, saveCalls >>

\* part_000:80-86, save-credentials stores the client id and the secret.
SaveCredentials ==
  /\ credCalls.sent > 0
  /\ credentials' = TRUE
  /\ credCalls' = [credCalls EXCEPT !.sent = @ - 1, !.done = @ + 1]
  /\ UNCHANGED << playerVars, tracksFile, saveCalls >>

\* renderer.js:716-718, the reply of save-credentials reaches the renderer.
SaveSettingsReturns ==
  /\ credCalls.done > 0
  /\ credCalls' = [credCalls EXCEPT !.done = @ - 1]
  /\ status' = setStatus(MsgCredentialsSaved, "ok")
  /\ UNCHANGED << libFrame, tracksFile, credentials, saveCalls >>

\* renderer.js:674-675, a drop that holds no track URI.
DropRejected ==
  /\ \E text \in RawUris : extractSpotifyUri(text) = NoUri
  /\ status' = setStatus(MsgNotATrack, "error")
  /\ UNCHANGED << libFrame, libVars >>

\* renderer.js:674-676, :680-681, :685-687: a drop or a paste that holds a
\* track URI; handleTrackUri shows that it looks the track up and sends the
\* save-track message (the call takes the first free slot).
HandleTrackUri ==
  \E text \in RawUris, c \in 1..MaxSaveCalls :
    /\ extractSpotifyUri(text) # NoUri
    /\ saveCalls[c].pc = "idle"
    /\ \A d \in 1..(c - 1) : saveCalls[d].pc # "idle"
    /\ status' = setStatus(MsgLookingUp, "info")
    /\ saveCalls' = [saveCalls EXCEPT ![c] =
                       [NoSaveCall EXCEPT !.by = "uri",
                                          !.pc = "sent",
                                          !.uri = extractSpotifyUri(text)]]
    /\ UNCHANGED << libFrame, tracksFile, credentials, credCalls >>

\* part_000:88-111, the main process takes a save-track message and the
\* handler returns before any request: no track id in the input, the id
\* already in the library, or no credentials stored.
SaveTrackReturnsEarly ==
  \E c \in 1..MaxSaveCalls :
    /\ saveCalls[c].pc = "sent"
    /\ SaveTrackEarlyReturn(saveCalls[c].uri) # "none"
    /\ saveCalls' = [saveCalls EXCEPT ![c] =
                       [NoSaveCall EXCEPT
                          !.by = saveCalls[c].by,
                          !.pc = "reply",
                          !.trackId = ParseTrackId(saveCalls[c].uri),
                          !.ret = SaveTrackEarlyReturn(saveCalls[c].uri)]]
    /\ UNCHANGED << playerVars, tracksFile, credentials, credCalls >>

\* part_000:88-114, the main process takes a save-track message; the handler
\* loads the library, passes its checks and awaits getToken, holding the
\* tracks it loaded.
SaveTrackAwaitsToken ==
  \E c \in 1..MaxSaveCalls :
    /\ saveCalls[c].pc = "sent"
    /\ SaveTrackEarlyReturn(saveCalls[c].uri) = "none"
    /\ saveCalls' = [saveCalls EXCEPT ![c] =
                       [NoSaveCall EXCEPT
                          !.by = saveCalls[c].by,
                          !.pc = "token",
                          !.trackId = ParseTrackId(saveCalls[c].uri),
                          !.tracks = tracksFile]]
    /\ UNCHANGED << playerVars, tracksFile, credentials, credCalls >>

\* part_000:114-118, the token arrives and the two requests are awaited.
SaveTrackAwaitsTrack ==
  \E c \in 1..MaxSaveCalls :
    /\ saveCalls[c].pc = "token"
    /\ saveCalls' = [saveCalls EXCEPT ![c].pc = "fetch"]
    /\ UNCHANGED << playerVars, tracksFile, credentials, credCalls >>

\* part_000:136-138, getToken or the track request throws: the handler
\* returns an error and stores nothing.
SaveTrackFails ==
  \E c \in 1..MaxSaveCalls :
    /\ saveCalls[c].pc \in {"token", "fetch"}
    /\ saveCalls' = [saveCalls EXCEPT ![c] =
                       [NoSaveCall EXCEPT !.by = saveCalls[c].by,
                                          !.pc = "reply",
                                          !.trackId = saveCalls[c].trackId,
                                          !.ret = "failed"]]
    /\ UNCHANGED << playerVars, tracksFile, credentials, credCalls >>

\* part_000:115-135, the responses arrive: the track is pushed onto the tracks
\* the handler loaded, that list is written, success is returned.
SaveTrackStores ==
  \E c \in 1..MaxSaveCalls, bpm \in BpmValues :
    /\ saveCalls[c].pc = "fetch"
    /\ tracksFile' =
         Append(saveCalls[c].tracks, NewTrack(saveCalls[c].trackId, bpm))
    /\ saveCalls' = [saveCalls EXCEPT ![c] =
                       [NoSaveCall EXCEPT !.by = saveCalls[c].by,
                                          !.pc = "reply",
                                          !.trackId = saveCalls[c].trackId,
                                          !.ret = "success"]]
    /\ UNCHANGED << playerVars, credentials, credCalls >>

\* renderer.js:687-692, the reply of save-track reaches handleTrackUri, which
\* shows what became of the track.
HandleTrackUriReturns ==
  \E c \in 1..MaxSaveCalls :
    /\ saveCalls[c].pc = "reply"
    /\ saveCalls[c].by = "uri"
    /\ status' = SaveTrackStatus(saveCalls[c])
    /\ saveCalls' = [saveCalls EXCEPT ![c] = NoSaveCall]
    /\ UNCHANGED << libFrame, tracksFile, credentials, credCalls >>

\* renderer.js:526-528: the add button of a row of the library browser is
\* clicked. The listener sends the save-track message with the URI of the
\* row's track and sets no status (the call takes the first free slot). The
\* rows are those of an earlier response; a row keeps its button whatever
\* has happened to the library or the session since (renderer.js:513).
BrowserAdd ==
  \E trackId \in TrackIds, c \in 1..MaxSaveCalls :
    /\ saveCalls[c].pc = "idle"
    /\ \A d \in 1..(c - 1) : saveCalls[d].pc # "idle"
    /\ saveCalls' = [saveCalls EXCEPT ![c] =
                       [NoSaveCall EXCEPT
                          !.by = "browser",
                          !.pc = "sent",
                          !.uri = [form |-> "uri", id |-> trackId]]]
    /\ UNCHANGED << playerVars, tracksFile, credentials, credCalls >>

\* renderer.js:528-536, the reply of save-track reaches the listener of the
\* add button: an error in it is shown; a reply without one (the track was
\* stored, or was in the library already) marks the row and sets no status.
BrowserAddReturns ==
  \E c \in 1..MaxSaveCalls :
    /\ saveCalls[c].pc = "reply"
    /\ saveCalls[c].by = "browser"
    /\ status' = (IF saveCalls[c].ret \in {"success", "duplicate"}
                  THEN status
                  ELSE SaveTrackStatus(saveCalls[c]))
    /\ saveCalls' = [saveCalls EXCEPT ![c] = NoSaveCall]
    /\ UNCHANGED << libFrame, tracksFile, credentials, credCalls >>

\* part_000:141-145, delete-track.
DeleteTrack ==
  \E trackId \in TrackIds :
    /\ tracksFile' = WithoutTrack(tracksFile, trackId)
    /\ UNCHANGED << playerVars, credentials, credCalls, saveCalls >>

\* part_000:149-157, update-track: the library is written when the track is
\* found, and left alone when it is not.
UpdateTrack ==
  \E trackId \in TrackIds, field \in TrackFields :
    \E value \in FieldValues(field) :
      /\ tracksFile' = IF trackId \in IdsOf(tracksFile)
                       THEN WithField(tracksFile, trackId, field, value)
                       ELSE tracksFile
      /\ UNCHANGED << playerVars, credentials, credCalls, saveCalls >>

\* -------------------------------------------------------------- environment

\* Time passes: the clock moves to its next reading among I.
TickOver(I) ==
  /\ \E t \in I :
       /\ t > now
       /\ \A u \in I : u > now => t <= u
       /\ now' = t
  /\ evt' = "other"
  /\ UNCHANGED << tokenVars, sdkVars, timerVars, timeouts, syncVars,
                  lastTrackId, lastPaused, tgVars, playTrackPending,
                  lastPlayTrackTime, pt, polls, login, relogin, libVars, bootVars,
                  domVars, status,
                  obs >>

Tick == TickOver(Instants)

\* renderer.js:48-50, a message that is not an error is removed after 3.5 s.
StatusExpires ==
  /\ status.msg # ""
  /\ status.type # "error"
  /\ status' = [status EXCEPT !.msg = ""]
  /\ UNCHANGED << libFrame, libVars >>

\* togglePlayPause on a fine clock, with what enables its call sites (the
\* poll started at login), the in-process session and start-up.
NextToggle ==
  \/ ToggleRejected
  \/ ToggleViaSdk
  \/ ToggleViaRemote
  \/ ToggleRefreshTaken
  \/ ToggleRefreshAnswered
  \/ ToggleTokenOk
  \/ ToggleTokenFails
  \/ ToggleFetchOk
  \/ ToggleFetchFails
  \/ SdkToggleSettles
  \/ PollRefreshTaken
  \/ PollRefreshAnswered
  \/ PollTokenOk
  \/ PollTokenFails
  \/ PollFetchFails
  \/ PollNothingLoaded
  \/ PollSnapshotOf(BeliefResponses)
  \/ ProgressTick
  \/ SdkReady
  \/ SdkNotReady
  \/ SdkStateChanged
  \/ InitRefreshOk
  \/ InitLoggedIn
  \/ InitLoggedOut
  \/ InitCredentialsTaken
  \/ InitCredentials
  \/ Tick

SpecToggle == InitSdkLoaded /\ [][NextToggle]_vars

\* togglePlayPause with everything that writes the belief while its command
\* is in flight: the polls of the interval, the events of the in-process
\* session, logout; at one clock reading.
NextWriters ==
  \/ ToggleRejected
  \/ ToggleViaSdk
  \/ ToggleViaRemote
  \/ ToggleRefreshTaken
  \/ ToggleRefreshAnswered
  \/ ToggleTokenOk
  \/ ToggleTokenFails
  \/ ToggleFetchOk
  \/ ToggleFetchFails
  \/ SdkToggleSettles
  \/ PollIntervalTick
  \/ PollRefreshTaken
  \/ PollRefreshAnswered
  \/ PollTokenOk
  \/ PollTokenFails
  \/ PollTokenRefused
  \/ PollFetchFails
  \/ PollNothingLoaded
  \/ PollSnapshotOf(BeliefResponses)
  \/ ProgressTick
  \/ SdkReady
  \/ SdkNotReady
  \/ SdkStateChanged
  \/ InitRefreshOk
  \/ InitLoggedIn
  \/ InitLoggedOut
  \/ InitCredentialsTaken
  \/ InitCredentials
  \/ HandleLogout
  \/ LogoutHandled
  \/ LogoutCompletes

SpecWriters == InitSdkLoaded /\ [][NextWriters]_vars

\* togglePlayPause with everything that writes the belief, the button and
\* the Interpolation Clock while a session lasts: the poller, the in-process
\* session (its events report track X), start-up; the clock moves by whole
\* throttle windows.
NextBelief ==
  \/ ToggleRejected
  \/ ToggleViaSdk
  \/ ToggleViaRemote
  \/ ToggleRefreshTaken
  \/ ToggleRefreshAnswered
  \/ ToggleTokenOk
  \/ ToggleTokenFails
  \/ ToggleFetchOk
  \/ ToggleFetchFails
  \/ SdkToggleSettles
  \/ PollIntervalTick
  \/ PollRefreshTaken
  \/ PollRefreshAnswered
  \/ PollTokenOk
  \/ PollTokenFails
  \/ PollFetchFails
  \/ PollNothingLoaded
  \/ PollSnapshotOf(BeliefResponses)
  \/ ProgressTick
  \/ SdkReady
  \/ SdkStateChangedOf({"X"})
  \/ InitRefreshOk
  \/ InitLoggedIn
  \/ InitLoggedOut
  \/ InitCredentialsTaken
  \/ InitCredentials
  \/ TickOver(WindowInstants)

SpecBelief == InitSdkLoaded /\ [][NextBelief]_vars

\* playTrack on a clock that reads just inside and just outside a throttle
\* window, with the device lookup, the supplementary poll (its polls find
\* nothing loaded or fail), the in-process session's device and start-up.
NextPlayTrack ==
  \/ PlayTrackRejected
  \/ PlayTrackViaSdkDevice
  \/ PlayTrackAsksDevices
  \/ PlayTrackRefreshTaken
  \/ PlayTrackRefreshAnswered
  \/ PlayTrackTokenOk
  \/ PlayTrackDevicesFail
  \/ PlayTrackDevicesArrive
  \/ PlayTrackPlayOk
  \/ PlayTrackPlayFails
  \/ SupplementaryPollFires
  \/ PollRefreshTaken
  \/ PollRefreshAnswered
  \/ PollTokenOk
  \/ PollTokenFails
  \/ PollFetchFails
  \/ PollNothingLoaded
  \/ SdkReady
  \/ InitRefreshOk
  \/ InitLoggedIn
  \/ TickOver(PlayInstants)

SpecPlayTrack == InitSdkLoaded /\ [][NextPlayTrack]_vars

\* The poller and the Interpolation Clock on a 100 ms clock, with start-up
\* and logout.
NextPoller ==
  \/ PollIntervalTick
  \/ PollRefreshTaken
  \/ PollRefreshAnswered
  \/ PollTokenOk
  \/ PollTokenFails
  \/ PollTokenRefused
  \/ PollFetchFails
  \/ PollNothingLoaded
  \/ PollSnapshotOf(PollerResponses)
  \/ ProgressTick
  \/ InitRefreshOk
  \/ InitLoggedIn
  \/ InitLoggedOut
  \/ InitCredentialsTaken
  \/ InitCredentials
  \/ HandleLogout
  \/ LogoutHandled
  \/ LogoutCompletes
  \/ TickOver(PollInstants)

SpecPoller == InitSdkNotLoaded /\ [][NextPoller]_vars

\* Polls that overlap: those of the interval, with slow responses, and the
\* supplementary polls of playTrack (every click is on the card of track X);
\* at one clock reading.
NextOverlap ==
  \/ PollIntervalTickUpTo(MaxOverlap)
  \/ SupplementaryPollFiresUpTo(MaxOverlap)
  \/ PollRefreshTaken
  \/ PollRefreshAnswered
  \/ PollTokenOk
  \/ PollTokenFails
  \/ PollFetchFails
  \/ PollNothingLoaded
  \/ PollSnapshotWatching(PollerResponses, TRUE)
  \/ ProgressTick
  \/ PlayTrackRejected
  \/ PlayTrackAsksDevicesOf({"X"})
  \/ PlayTrackRefreshTaken
  \/ PlayTrackRefreshAnswered
  \/ PlayTrackTokenOk
  \/ PlayTrackDevicesFail
  \/ PlayTrackDevicesArrive
  \/ PlayTrackPlayOk
  \/ PlayTrackPlayFails
  \/ InitRefreshOk
  \/ InitLoggedIn

SpecOverlap == InitSdkNotLoaded /\ [][NextOverlap]_vars

\* The asynchronous calls awaited: polls, the toggle, playTrack, handleLogin
\* and handleLogout.
InFlight ==
  PollsInFlight + logouts
    + (IF tg.pc # "idle" THEN 1 ELSE 0)
    + (IF pt.pc # "idle" THEN 1 ELSE 0)
    + (IF login # "idle" THEN 1 ELSE 0)
\* A further call may be started.
Room == InFlight < MaxInFlight

\* Everything that starts, stops or restarts the Interpolation Clock or the
\* poller, interleaved at one clock reading: the polls of the interval and
\* the supplementary polls, the toggle, logout and the login after it, with
\* at most MaxInFlight calls awaited at once. The device lookup, the play
\* request and the login succeed, every click is on the card of track X.
NextInterleaved ==
  \/ Room /\ PollIntervalTickUpTo(MaxOverlap)
  \/ Room /\ SupplementaryPollFiresUpTo(MaxOverlap)
  \/ PollRefreshTaken
  \/ PollRefreshAnswered
  \/ PollTokenOk
  \/ PollTokenFails
  \/ PollTokenRefused
  \/ PollFetchFails
  \/ PollNothingLoaded
  \/ PollSnapshotWatching(BeliefResponses, TRUE)
  \/ ProgressTick
  \/ Room /\ ToggleViaRemote
  \/ ToggleRefreshTaken
  \/ ToggleRefreshAnswered
  \/ ToggleTokenOk
  \/ ToggleTokenFails
  \/ ToggleFetchOk
  \/ ToggleFetchFails
  \/ Room /\ PlayTrackAsksDevicesOf({"X"})
  \/ PlayTrackRefreshTaken
  \/ PlayTrackRefreshAnswered
  \/ PlayTrackTokenOk
  \/ PlayTrackDevicesArrive
  \/ PlayTrackPlayOk
  \/ InitRefreshOk
  \/ InitLoggedIn
  \/ Room /\ HandleLogin
  \/ LoginOAuthTakenOf(1)
  \/ LoginOAuthCodeOf(1)
  \/ LoginExchangeAnsweredOf(1)
  \/ LoginTokensOf(1)
  \/ LoginCompletesOf(1)
  \/ Room /\ HandleLogout
  \/ LogoutHandled
  \/ LogoutCompletes

SpecInterleaved == InitSdkNotLoaded /\ [][NextInterleaved]_vars

\* Starting, stopping and restarting the poller: start-up, logout, login and
\* a second login started while the first is awaited, with the polls and the
\* snapshots in between; no clock.
NextRestart ==
  \/ InitRefreshOk
  \/ InitRefreshRejects
  \/ InitLoggedIn
  \/ InitLoggedOut
  \/ InitCredentialsTaken
  \/ InitCredentials
  \/ HandleLogin
  \/ LoginOAuthTakenOf(1)
  \/ LoginOAuthFailsOf(1)
  \/ LoginOAuthCodeOf(1)
  \/ LoginExchangeFailsOf(1)
  \/ LoginExchangeRejectsOf(1)
  \/ LoginExchangeAnsweredOf(1)
  \/ LoginTokensOf(1)
  \/ LoginCompletesOf(1)
  \/ HandleLoginAgain
  \/ LoginOAuthTakenOf(2)
  \/ LoginOAuthFailsOf(2)
  \/ LoginOAuthCodeOf(2)
  \/ LoginExchangeFailsOf(2)
  \/ LoginExchangeRejectsOf(2)
  \/ LoginExchangeAnsweredOf(2)
  \/ LoginTokensOf(2)
  \/ LoginCompletesOf(2)
  \/ HandleLogout
  \/ LogoutHandled
  \/ LogoutCompletes
  \/ PollIntervalTick
  \/ PollRefreshTaken
  \/ PollRefreshAnswered
  \/ PollTokenOk
  \/ PollTokenFails
  \/ PollTokenRefused
  \/ PollFetchFails
  \/ PollNothingLoaded
  \/ PollSnapshotOf(BeliefResponses)

SpecRestart == InitSdkNotLoaded /\ [][NextRestart]_vars

\* The two command classes side by side, on the remote path and on that of
\* the in-process session: the toggle, playTrack with its device lookup and
\* its supplementary poll, the poll started at login; at one clock reading.
NextCommands ==
  \/ ToggleRejected
  \/ ToggleViaSdk
  \/ ToggleViaRemoteWatching(TRUE)
  \/ ToggleRefreshTaken
  \/ ToggleRefreshAnswered
  \/ ToggleTokenOk
  \/ ToggleTokenFails
  \/ ToggleFetchOk
  \/ ToggleFetchFails
  \/ SdkToggleSettles
  \/ PlayTrackRejected
  \/ PlayTrackViaSdkDevice
  \/ PlayTrackAsksDevices
  \/ PlayTrackRefreshTaken
  \/ PlayTrackRefreshAnswered
  \/ PlayTrackTokenOk
  \/ PlayTrackDevicesFail
  \/ PlayTrackDevicesArrive
  \/ PlayTrackPlayOk
  \/ PlayTrackPlayFails
  \/ SupplementaryPollFires
  \/ PollRefreshTaken
  \/ PollRefreshAnswered
  \/ PollTokenOk
  \/ PollTokenFails
  \/ PollFetchFails
  \/ PollNothingLoaded
  \/ PollSnapshotOf(BeliefResponses)
  \/ ProgressTick
  \/ SdkReady
  \/ InitRefreshOk
  \/ InitLoggedIn

SpecCommands == InitSdkLoaded /\ [][NextCommands]_vars

\* renderer.js:103-118, the request awaited by a toggle settles: its token
\* stage moves on or ends, or its fetch stage ends, with a result or with an
\* error.
ToggleSettles ==
  \/ ToggleRefreshTaken
  \/ ToggleTokenOk
  \/ ToggleTokenFails
  \/ ToggleFetchOk
  \/ ToggleFetchFails

\* renderer.js:195-203, :103-118, the device lookup or the play request
\* awaited by a playTrack settles.
PlayTrackSettles ==
  \/ PlayTrackRefreshTaken
  \/ PlayTrackTokenOk
  \/ PlayTrackDevicesFail
  \/ PlayTrackDevicesArrive
  \/ PlayTrackPlayOk
  \/ PlayTrackPlayFails

\* The accepted invocations of the two command classes, each up to its
\* return, on the remote path and on that of the in-process session, with
\* the polls they and the login start; every click is on the card of track
\* X; at one clock reading.
NextPending ==
  \/ ToggleViaSdk
  \/ ToggleViaRemote
  \/ ToggleRefreshTaken
  \/ ToggleRefreshAnswered
  \/ ToggleTokenOk
  \/ ToggleTokenFails
  \/ ToggleFetchOk
  \/ ToggleFetchFails
  \/ SdkToggleSettles
  \/ PlayTrackViaSdkDeviceOf({"X"})
  \/ PlayTrackAsksDevicesOf({"X"})
  \/ PlayTrackRefreshTaken
  \/ PlayTrackRefreshAnswered
  \/ PlayTrackTokenOk
  \/ PlayTrackDevicesFail
  \/ PlayTrackDevicesArrive
  \/ PlayTrackPlayOk
  \/ PlayTrackPlayFails
  \/ SupplementaryPollFires
  \/ InitRefreshOk
  \/ InitLoggedIn
  \/ PollRefreshTaken
  \/ PollRefreshAnswered
  \/ PollTokenOk
  \/ PollTokenFails
  \/ PollFetchFails
  \/ PollNothingLoaded
  \/ PollSnapshotOf({r \in BeliefResponses : r.isPlaying})
  \/ ProgressTick
  \/ SdkReady

\* Every network call and device lookup eventually settles: an awaited
\* request does not stay unanswered forever.
SpecPendingFair ==
  /\ InitSdkLoaded
  /\ [][NextPending]_vars
  /\ WF_vars(ToggleSettles)
  /\ WF_vars(PlayTrackSettles)

\* Sessions from start-up or login to logout: their polls, the other callers
\* of getValidToken (the library views and searches, the player), the login
\* and logout buttons; no clock.
NextSession ==
  \/ InitRefreshOk
  \/ InitLoggedIn
  \/ InitLoggedOut
  \/ InitCredentialsTaken
  \/ InitCredentials
  \/ PollIntervalTick
  \/ PollRefreshTaken
  \/ PollRefreshAnswered
  \/ PollTokenOk
  \/ PollTokenFails
  \/ PollTokenRefused
  \/ PollFetchFails
  \/ PollSnapshotOf(BeliefResponses)
  \/ OtherAsksToken
  \/ OtherRefreshTaken
  \/ OtherRefreshAnswered
  \/ OtherTokenOk
  \/ OtherTokenFails
  \/ OtherTokenRejects
  \/ HandleLogin
  \/ LoginOAuthTakenOf(1)
  \/ LoginOAuthFailsOf(1)
  \/ LoginOAuthCodeOf(1)
  \/ LoginExchangeFailsOf(1)
  \/ LoginExchangeRejectsOf(1)
  \/ LoginExchangeAnsweredOf(1)
  \/ LoginTokensOf(1)
  \/ LoginCompletesOf(1)
  \/ HandleLogout
  \/ LogoutHandled
  \/ LogoutCompletes
  \/ SdkScriptLoads

SpecSession == InitSdkNotLoaded /\ [][NextSession]_vars

\* The track library and the settings with their callers in the renderer,
\* under overlapping requests.
NextLibrary ==
  \/ SaveSettingsRejected
  \/ SaveSettings
  \/ SaveCredentials
  \/ SaveSettingsReturns
  \/ DropRejected
  \/ HandleTrackUri
  \/ SaveTrackReturnsEarly
  \/ SaveTrackAwaitsToken
  \/ SaveTrackAwaitsTrack
  \/ SaveTrackFails
  \/ SaveTrackStores
  \/ HandleTrackUriReturns
  \/ BrowserAdd
  \/ BrowserAddReturns
  \/ StatusExpires
  \/ DeleteTrack
  \/ UpdateTrack

SpecLibrary == InitSdkNotLoaded /\ [][NextLibrary]_vars

\* ------------------------------------------------------------------ claims

\* Steps of togglePlayPause, recognised by what they change.
\* An invocation passes both guards.
ToggleAcceptStep == evt' = "toggle" /\ ~ToggleRejects
\* An invocation passes both guards and awaits a remote request.
ToggleRemoteAcceptStep == tg.pc = "idle" /\ tg'.pc # "idle"
\* The awaited remote request settles and the invocation ends.
ToggleSettleStep == tg.pc # "idle" /\ tg'.pc = "idle"
ToggleFailStep == ToggleSettleStep /\ obs'.tgRes = "failed"
\* An invocation ends: at once (rejected, or the in-process path) or when its
\* request settles.
ToggleReturnStep ==
  \/ evt' = "toggle" /\ ~ToggleRemoteAcceptStep
  \/ ToggleSettleStep
\* A togglePlayPause step that changes nothing and issues no command.
ToggleNoOpStep ==
  UNCHANGED << now, tokenVars, sdkVars, timerVars, timeouts, syncVars,
               lastTrackId, lastPaused, tgVars, ptVars, polls, login,
               domVars, status >>

\* Commands of the togglePlayPause class that have not settled.
ToggleCommandsInFlight == sdkToggles + (IF tg.pc # "idle" THEN 1 ELSE 0)

\* C1: per command class, at most one command is in flight at any time, and
\* the class's pending flag is set for as long as an accepted invocation has
\* not ended. (Fails: togglePlay() of the in-process session is not awaited,
\* see C8.)
C1_OneCommandInFlight ==
  /\ ToggleCommandsInFlight <= 1
  /\ tg.pc # "idle" => playbackCommandPending
  /\ pt.pc # "idle" => playTrackPending

\* C2 as stated: a togglePlayPause invocation made within 10 ms of an accepted
\* one issues no command, whatever became of the first one's command; and an
\* accepted invocation issues exactly one command.
C2_SecondCallNoOp ==
  [][ /\ (evt' = "toggle" /\ obs.tgAt > 0 /\ now - obs.tgAt <= 10)
           => ToggleNoOpStep
      /\ ToggleAcceptStep
           => \/ tg'.pc # "idle" /\ sdkToggles' = sdkToggles
              \/ tg'.pc = "idle" /\ sdkToggles' = sdkToggles + 1 ]_vars

\* C2 amended: a togglePlayPause invocation made within 10 ms of an accepted
\* one issues no command unless the first one's command has already failed;
\* and an accepted invocation issues exactly one command.
C2_SecondCallNoOpUnlessFailed ==
  [][ /\ ( /\ evt' = "toggle"
           /\ obs.tgAt > 0
           /\ now - obs.tgAt <= 10
           /\ obs.tgRes # "failed" )
           => ToggleNoOpStep
      /\ ToggleAcceptStep
           => \/ tg'.pc # "idle" /\ sdkToggles' = sdkToggles
              \/ tg'.pc = "idle" /\ sdkToggles' = sdkToggles + 1 ]_vars

\* A second invocation 10 ms after an accepted and successful one was
\* rejected.
C2_Witness ==
  /\ evt = "toggle"
  /\ obs.tgRes = "ok"
  /\ now = obs.tgAt + 10
  /\ tg.pc = "idle"
  /\ sdkToggles = 0

\* C3 as stated: when the remote request of a toggle fails, the belief and
\* the button are back at their values at invocation when the toggle returns
\* (paused, with the play glyph, when the belief at invocation was paused).
C3_FailedToggleRestoresBoth ==
  [][ ToggleFailStep =>
        /\ lastPaused' = tg.prevPaused
        /\ tg.btn = "live" =>
             /\ ppBtn'.text = obs.tgBtn0
             /\ tg.prevPaused => ppBtn'.text = PlayGlyph ]_vars

\* C3 amended: when the remote request of a toggle fails, the belief is back
\* at its value at invocation when the toggle returns, and the button the
\* toggle found at invocation, if still in the document, shows the glyph of
\* that belief (the play glyph when it was paused).
C3_FailedToggleRestoresBelief ==
  [][ ToggleFailStep =>
        /\ lastPaused' = tg.prevPaused
        /\ tg.btn = "live" =>
             /\ ppBtn'.text = Glyph(tg.prevPaused)
             /\ tg.prevPaused => ppBtn'.text = PlayGlyph ]_vars

\* A toggle invoked with the belief paused has failed and returned: the
\* belief is paused, the button shows the play glyph, the error is shown.
C3_Witness ==
  /\ obs.tgRes = "failed"
  /\ tg.pc = "idle"
  /\ lastPaused
  /\ bar = "in"
  /\ ~ppBtn.disabled
  /\ ppBtn.text = PlayGlyph
  /\ status = setStatus(MsgServer, "error")

\* A playTrack step that changes nothing: no device lookup, no request, no
\* supplementary poll, no state change.
PlayTrackNoOpStep ==
  UNCHANGED << now, tokenVars, sdkVars, timerVars, timeouts, syncVars,
               lastTrackId, lastPaused, tgVars, ptVars, polls, login,
               domVars, status >>

\* C4 as stated: a playTrack invocation is a no-op whenever another one is
\* pending or the previous one completed less than 500 ms earlier.
C4_RejectedAfterCompletion ==
  [][ ( /\ evt' = "playTrack"
        /\ \/ playTrackPending
           \/ obs.ptDoneAt > 0 /\ now - obs.ptDoneAt < ThrottleMs )
        => PlayTrackNoOpStep ]_vars

\* C4 amended: a playTrack invocation is a no-op whenever another one is
\* pending or the previous accepted one was invoked less than 500 ms earlier,
\* whether it has completed or not and whatever its outcome.
C4_RejectedAfterAcceptance ==
  [][ ( /\ evt' = "playTrack"
        /\ \/ playTrackPending
           \/ obs.ptAt > 0 /\ now - obs.ptAt < ThrottleMs )
        => PlayTrackNoOpStep ]_vars

\* An invocation made 400 ms after an accepted one that has completed was
\* rejected.
C4_Witness ==
  /\ evt = "playTrack"
  /\ ~playTrackPending
  /\ pt.pc = "idle"
  /\ obs.ptRes \in {"ok", "failed", "nodevice"}
  /\ now = obs.ptAt + 400

\* The last accepted playTrack was for X, it has succeeded, and it was
\* invoked d ms ago.
AfterPlayX(d) ==
  /\ obs.ptTrack = "X"
  /\ obs.ptRes = "ok"
  /\ now = obs.ptAt + d

\* C5: after a playTrack("X") invoked at t=0 that succeeds, a playTrack
\* invoked at t=400 is a no-op, and a playTrack("Y") invoked at t=600 is
\* accepted; the play request of an accepted invocation is for the track it
\* was invoked with.
C5_ThrottleWindow ==
  [][ /\ (evt' = "playTrack" /\ AfterPlayX(400)) => PlayTrackNoOpStep
      /\ (evt' = "playTrack" /\ AfterPlayX(600)) =>
           /\ obs'.ptAt = now
           /\ playTrackPending'
           /\ pt'.pc \in {"devices", "play"}
           /\ pt'.trackId = obs'.ptTrack
      /\ pt'.pc = "play" =>
           /\ pt'.trackId = obs'.ptTrack
           /\ pt'.uri = << "spotify", "track", obs'.ptTrack >> ]_vars

\* playTrack("X") was invoked at t=0 and succeeded, playTrack("Y") was
\* invoked at t=600 and its play request for Y is being sent.
C5_Witness ==
  /\ obs.ptPrev = << StartNow, "X", "ok" >>
  /\ obs.ptAt = StartNow + 600
  /\ obs.ptTrack = "Y"
  /\ pt.pc = "play"
  /\ pt.stage = "fetch"
  /\ pt.uri = << "spotify", "track", "Y" >>

\* The steps in which the command of a toggle is known to have succeeded.
ToggleCommandSucceedsStep ==
  \/ ToggleSettleStep /\ obs'.tgRes = "ok"
  \/ sdkToggles' = sdkToggles - 1 /\ evt' # "unhandled"

\* C6: the throttle timestamp is written only when the command of a toggle
\* has succeeded, and a toggle invoked after a failed one has returned is
\* accepted. (Fails on the in-process path, which writes the timestamp while
\* togglePlay() is unsettled, see C8.)
C6_TimestampOnlyOnSuccess ==
  [][ /\ lastPlaybackCommandTime' # lastPlaybackCommandTime
           => ToggleCommandSucceedsStep
      /\ (evt' = "toggle" /\ obs.tgRes = "failed" /\ tg.pc = "idle")
           => obs'.tgAt = now ]_vars

\* C7 as stated: whenever a togglePlayPause invocation ends, the pending flag
\* is clear.
C7_FlagClearOnEveryReturn ==
  [][ ToggleReturnStep => ~playbackCommandPending' ]_vars

\* C7 amended: when a togglePlayPause invocation ends, the pending flag is
\* clear, except when the invocation was rejected by the pending guard: then
\* the flag is still set (for the invocation in flight).
C7_FlagClearUnlessRejectedByPending ==
  [][ ToggleReturnStep =>
        (playbackCommandPending'
           <=> (evt' = "toggle" /\ playbackCommandPending)) ]_vars

\* An invocation was rejected by the 500 ms guard (none is pending) and the
\* flag is clear.
C7_Witness ==
  /\ evt = "toggle"
  /\ ~playbackCommandPending
  /\ now > obs.tgAt
  /\ now - lastPlaybackCommandTime < ThrottleMs

\* C8: the pending flag of togglePlayPause is set for as long as a command an
\* accepted toggle issued (a remote request or the in-process togglePlay)
\* has not settled.
C8_PendingUntilSettled ==
  ToggleCommandsInFlight > 0 => playbackCommandPending

\* C9: an accepted toggle flips the belief and the button glyph, stops the
\* Interpolation Clock when the new belief is paused and starts it when the
\* new belief is playing.
C9_OptimisticUpdate ==
  [][ ToggleAcceptStep =>
        /\ lastPaused' = ~lastPaused
        /\ bar = "in" => ppBtn'.text = Glyph(~lastPaused)
        /\ lastPaused' => progressTimers' = {}
        /\ ~lastPaused' => progressTimers' # {} ]_vars

\* The accepted toggle's choice of command: with the in-process session
\* connected it calls that session's togglePlay once and awaits no remote
\* call; otherwise it awaits one remote call (spotifyFetch), play if the
\* belief at invocation was paused and pause if it was playing. No other step
\* issues a command or changes the one awaited.
ToggleChoosesFromBelief ==
  /\ ToggleAcceptStep =>
       IF spotifyPlayer /\ sdkDeviceId # NULL
       THEN sdkToggles' = sdkToggles + 1 /\ tg'.pc = "idle"
       ELSE /\ sdkToggles' = sdkToggles
            /\ tg'.pc \in {"token", "fetch"}
            /\ tg'.cmd = IF lastPaused THEN "play" ELSE "pause"
  /\ ~ToggleAcceptStep =>
       /\ sdkToggles' <= sdkToggles
       /\ tg'.pc # "idle" => tg'.cmd = tg.cmd

\* C10: an accepted toggle chooses its command from the belief at
\* invocation; on the remote path its play/pause request is sent once
\* getValidToken has yielded a token (the call is then at its fetch stage,
\* which it leaves only by ending), and a call that ends without having got a
\* token has sent no request and ends as failed, with the belief at
\* invocation restored.
C10_OneRequestOnceTokenHeld ==
  [][ /\ ToggleChoosesFromBelief
      /\ tg.pc = "fetch" => tg'.pc \in {"fetch", "idle"}
      /\ (ToggleSettleStep /\ tg.pc = "token") =>
            /\ obs'.tgRes = "failed"
            /\ lastPaused' = tg.prevPaused ]_vars

\* C10 as stated: every accepted toggle on the remote path sends exactly one
\* remote request, so each one that ends has reached its fetch stage.
C10_ExactlyOneRequest ==
  [][ /\ ToggleChoosesFromBelief
      /\ ToggleSettleStep => tg.pc = "fetch" ]_vars

\* A toggle invoked with the belief playing awaits its pause request.
C10_Witness ==
  /\ tg.pc = "fetch"
  /\ tg.cmd = "pause"
  /\ ~tg.prevPaused
  /\ lastPaused
  /\ sdkToggles = 0

\* The device lookup of playTrack ends in this step, with what it got.
DeviceLookupEndsStep == pt.pc = "devices" /\ pt'.pc # "devices"

\* C11: the Device Resolver returns the in-process session's device id when
\* there is one, without asking the remote; otherwise the device the list
\* flags active, or the first of the list when none is flagged, or no device
\* when the list is empty.
C11_DeviceResolver ==
  [][ /\ (evt' = "playTrack" /\ ~PlayTrackNoOpStep) =>
           IF sdkDeviceId # NULL
           THEN /\ pt'.pc = "play"
                /\ pt'.deviceId = sdkDeviceId
                /\ obs'.ptDevices.got = "none"
           ELSE pt'.pc = "devices"
      /\ (DeviceLookupEndsStep /\ obs'.ptDevices.got = "list") =>
           LET ds == obs'.ptDevices.list
               flagged == { i \in 1..Len(ds) : ds[i].is_active }
           IN  IF ds = << >>
               THEN pt'.pc = "idle" /\ obs'.ptRes = "nodevice"
               ELSE /\ pt'.pc = "play"
                    /\ IF flagged # {}
                       THEN \E i \in flagged : pt'.deviceId = ds[i].id
                       ELSE pt'.deviceId = ds[1].id ]_vars

\* The play request goes to the device flagged active, which is not the
\* first of the list the remote returned.
C11_Witness ==
  /\ pt.pc = "play"
  /\ obs.ptDevices.got = "list"
  /\ Len(obs.ptDevices.list) = 2
  /\ ~obs.ptDevices.list[1].is_active
  /\ obs.ptDevices.list[2].is_active
  /\ pt.deviceId = obs.ptDevices.list[2].id

\* C12: when the device lookup yields no device (empty list or failed
\* request), playTrack shows the 'no active device' error, sends no play
\* request, schedules no supplementary poll, starts no poll and clears its
\* pending flag; the lookup's own error is not shown and not thrown.
C12_NoDeviceAborts ==
  [][ ( /\ DeviceLookupEndsStep
        /\ \/ obs'.ptDevices.got = "failed"
           \/ obs'.ptDevices.got = "list" /\ obs'.ptDevices.list = << >> )
        => /\ status' = [msg |-> MsgNoDevice, type |-> "error"]
           /\ pt'.pc = "idle"
           /\ timeouts' = timeouts
           /\ polls' = polls
           /\ ~playTrackPending'
           /\ evt' # "unhandled" ]_vars

\* A playTrack whose device-list request failed has shown the error and
\* returned.
C12_Witness ==
  /\ obs.ptRes = "nodevice"
  /\ obs.ptDevices.got = "failed"
  /\ pt.pc = "idle"
  /\ ~playTrackPending
  /\ timeouts = 0
  /\ status = [msg |-> MsgNoDevice, type |-> "error"]

\* C13: after handleLogout has stopped polling and until startPolling runs
\* again, no step sets the current track id, sets the belief to playing or
\* starts an Interpolation Clock timer.
C13_SnapshotStaysDiscarded ==
  [][ (logouts > 0 /\ pollInterval = NULL
         /\ pollInterval' = NULL)
        => /\ lastTrackId' \in {lastTrackId, NULL}
           /\ lastPaused => lastPaused'
           /\ progressTimers' \subseteq progressTimers ]_vars

\* C14: at most one Interpolation Clock timer is live at any time.
C14_OneClockTimer == Cardinality(progressTimers) <= 1

\* In a session entered by a login after the logout from the session of
\* start-up, a toggle and a playTrack have succeeded, the supplementary poll
\* has fired, and the second of two overlapping polls has delivered a playing
\* snapshot: its timer is the only one live.
C14_Witness ==
  /\ boot = "done"
  /\ status = setStatus(MsgLoggedIn, "ok")
  /\ pollInterval # NULL
  /\ obs.tgRes = "ok"
  /\ obs.ptRes = "ok"
  /\ timeouts = 0
  /\ obs.over = 2
  /\ obs.resp.r.isPlaying
  /\ progressTimers = {progressTimer}

\* C15: right after a poll response with a loaded track, the stored position,
\* duration, sample time, track id and paused belief are those of the
\* response, and an Interpolation Clock timer is live exactly when the
\* response says the track is playing.
C15_SnapshotEqualsResponse ==
  [][ evt' = "snapshot" =>
        LET r == obs'.resp.r
        IN  /\ obs'.resp.at = now
            /\ pollSyncPos' = r.posMs
            /\ pollDuration' = r.durMs
            /\ pollSyncAt' = now
            /\ lastTrackId' = r.track
            /\ lastPaused' = ~r.isPlaying
            /\ r.isPlaying <=> progressTimers' # {}
            /\ r.isPlaying => progressTimers' = {progressTimer'} ]_vars

\* A response saying paused has just arrived after a clock had been started.
C15_Witness ==
  /\ evt = "snapshot"
  /\ ~obs.resp.r.isPlaying
  /\ lastPaused
  /\ progressTimer # NULL
  /\ progressTimers = {}

\* C16: a poll response with nothing loaded stops the Interpolation Clock and
\* leaves the rendered now-playing panel, the position shown, the stored
\* baseline, the current track id, the paused belief, the button, the status
\* and the poll interval as they were.
C16_NothingLoadedOnlyStopsClock ==
  [][ PollNothingLoaded =>
        /\ progressTimers' = {}
        /\ UNCHANGED << nowPlaying, progressEl, ppBtn, bar, status,
                        pollSyncPos, pollSyncAt, pollDuration, lastTrackId,
                        lastPaused, pollInterval, intervalTimers >> ]_vars

\* The belief is playing and the last baseline is still within the track,
\* yet the clock that baseline started is no longer live: a response with
\* nothing loaded stopped it.
C16_Witness ==
  /\ login = "idle"
  /\ logouts = 0
  /\ ~lastPaused
  /\ progressTimer # NULL
  /\ progressTimers = {}
  /\ EstimatedPos <= pollDuration
  /\ nowPlaying \in TrackIds

\* The position the Interpolation Clock should show now: the position of the
\* last response with a loaded track plus the time since it arrived.
ObservedEstimate == obs.resp.r.posMs + (now - obs.resp.at)

\* C17: the Interpolation Clock runs only while a timer is live; a run whose
\* estimate is within the duration shows that estimate and keeps the timer;
\* a run whose estimate exceeds the duration shows nothing and stops the
\* clock, so that no further run happens until a poll starts a timer again.
C17_ClockStopsAtDuration ==
  [][ evt' = "progress" =>
        /\ progressTimers # {}
        /\ obs.resp.seen /\ obs.resp.r.isPlaying
        /\ IF ObservedEstimate <= obs.resp.r.durMs
           THEN /\ progressTimers' = progressTimers
                /\ bar = "in" => progressEl' = ObservedEstimate
                /\ bar # "in" => progressEl' = progressEl
           ELSE /\ progressTimers' = {}
                /\ progressEl' = progressEl ]_vars

\* The clock has just stopped itself: the estimate is past the duration, the
\* handle is set and no timer is live.
C17_Witness ==
  /\ evt = "progress"
  /\ ObservedEstimate > obs.resp.r.durMs
  /\ progressTimer # NULL
  /\ progressTimers = {}
  /\ progressEl <= obs.resp.r.durMs
  /\ progressEl > obs.resp.r.posMs

\* C18: every position the Interpolation Clock shows is the position of the
\* last response that arrived plus the time since its arrival, whatever
\* baselines came before it.
C18_EstimateFromLatestBaseline ==
  [][ (evt' = "progress" /\ progressEl' # progressEl) =>
        progressEl' = obs.resp.r.posMs + (now - obs.resp.at) ]_vars

\* The spec's example: a response with position 10500 arrived 300 ms after
\* start-up, when an earlier baseline was in place and its timer's handle
\* was held, and the clock has since shown 10500 plus the time since that
\* arrival.
C18_Witness ==
  /\ evt = "progress"
  /\ pollInterval = "t1" /\ progressTimer = "t3"
  /\ obs.resp.r.posMs = 10500
  /\ obs.resp.at = StartNow + 300
  /\ now > obs.resp.at
  /\ progressEl = 10500 + (now - (StartNow + 300))

\* C19: when polls overlap, each response that arrives is taken as the
\* newest truth: while no logout has cleared it, the stored baseline, track
\* id and paused belief are those of the response that arrived last, both
\* after the first of the overlapping responses and after both.
C19_LastArrivalWins ==
  (obs.over \in {1, 2} /\ lastTrackId # NULL) =>
     /\ pollSyncPos = obs.resp.r.posMs
     /\ pollSyncAt = obs.resp.at
     /\ pollDuration = obs.resp.r.durMs
     /\ lastTrackId = obs.resp.r.track
     /\ lastPaused = ~obs.resp.r.isPlaying

\* With the poll interval running, a playTrack has succeeded and its
\* supplementary poll has fired; two overlapping polls have both settled; an
\* earlier response had started the clock, and the one that arrived last
\* reports the earliest position and paused, which is what is stored.
C19_Witness ==
  /\ pollInterval # NULL
  /\ obs.ptRes = "ok"
  /\ timeouts = 0
  /\ obs.over = 2
  /\ PollsInFlight = 0
  /\ obs.resp.r.posMs = 10000
  /\ pollSyncPos = 10000
  /\ lastPaused
  /\ progressTimer # NULL
  /\ progressTimers = {}

\* C20: a poll that fails shows no status, leaves the poll interval, the
\* stored baseline, the track id, the paused belief, the Interpolation Clock
\* and everything rendered as they were, and with the interval live the next
\* tick can poll again.
C20_FailedPollChangesNothing ==
  /\ [][ evt' = "pollFailed" =>
            /\ PollsInFlight' = PollsInFlight - 1
            /\ UNCHANGED << status, pollInterval, intervalTimers, pollSyncPos,
                            pollSyncAt, pollDuration, lastTrackId, lastPaused,
                            progressTimer, progressTimers, nowPlaying, ppBtn,
                            progressEl, bar, login >> ]_vars
  /\ []( (evt = "pollFailed" /\ intervalTimers # {})
            => ENABLED PollIntervalTickUpTo(MaxOverlap) )

\* A poll has just failed while the belief is playing, the clock is running
\* and the poll interval is live.
C20_Witness ==
  /\ evt = "pollFailed"
  /\ ~lastPaused
  /\ progressTimers = {progressTimer}
  /\ intervalTimers = {pollInterval}
  /\ status.msg = ""

\* A step in which startPolling ran: the poll interval handle holds a new
\* timer.
StartPollingStep == pollInterval' # NULL /\ pollInterval' # pollInterval

\* C21: startPolling issues one poll in the same step, leaves its new interval
\* as the only live poll interval and no Interpolation Clock timer live; and
\* at most one poll interval timer is live in every state.
C21_ImmediatePollOneInterval ==
  /\ [][ StartPollingStep =>
            /\ PollsInFlight' = PollsInFlight + 1
            /\ intervalTimers' = {pollInterval'}
            /\ progressTimers' = {}
            /\ progressTimer' = NULL ]_vars
  /\ [](Cardinality(intervalTimers) <= 1)

\* The poller has been restarted by a login while it was running and a poll
\* was in flight: the new interval got the third timer id, the other two being
\* held by the interval and by the clock a playing snapshot had started; the
\* restart cancelled both and issued its poll, and only the new interval is
\* live.
C21_Witness ==
  /\ status = setStatus(MsgLoggedIn, "ok")
  /\ pollInterval = "t3"
  /\ intervalTimers = {"t3"}
  /\ progressTimers = {}
  /\ progressTimer = NULL
  /\ PollsInFlight = 2
  /\ ~lastPaused

\* C22: a togglePlayPause invoked with its own pending flag clear and its own
\* last command at least 500 ms old is accepted (belief flipped; the togglePlay
\* of a connected in-process session called, or else the flag set and a
\* remote request awaited), whatever the pending flag and timestamp of
\* playTrack; and a playTrack
\* invoked with its own flag clear and its own timestamp at least 500 ms old
\* is accepted (flag set, timestamp recorded), whatever those of the toggle.
C22_GuardsIndependent ==
  [][ /\ ( /\ evt' = "toggle"
           /\ ~playbackCommandPending
           /\ now - lastPlaybackCommandTime >= ThrottleMs )
          => /\ lastPaused' = ~lastPaused
             /\ IF SdkConnected
                THEN sdkToggles' = sdkToggles + 1
                ELSE playbackCommandPending' /\ tg'.pc # "idle"
      /\ ( /\ evt' = "playTrack"
           /\ ~playTrackPending
           /\ now - lastPlayTrackTime >= ThrottleMs )
          => /\ playTrackPending'
             /\ lastPlayTrackTime' = now
             /\ pt'.pc # "idle" ]_vars

\* A togglePlayPause has just been accepted while a playTrack accepted less
\* than 500 ms ago is still pending.
C22_Witness ==
  /\ evt = "toggle"
  /\ tg.pc # "idle"
  /\ obs.tgAt = now
  /\ playTrackPending
  /\ pt.pc # "idle"
  /\ now - lastPlayTrackTime < ThrottleMs

\* Every message a command's request can fail with.
CommandErrors == TokenErrors \cup FetchErrors
\* Those with one of the substrings listed at renderer.js:73-77.
SuppressedErrors == {MsgRestriction, MsgBadJson, MsgEmptyResponse}
\* The request of a togglePlayPause, or the play request of a playTrack,
\* fails with message msg.
CommandFailsStep(msg) ==
  \/ tg.pc # "idle" /\ ToggleFails(msg)
  \/ pt.pc = "play" /\ PlayTrackFails(msg)

\* C23 as stated: whenever the request of a command fails, whatever the
\* message, the status shows that message as an error.
C23_EveryFailureShown ==
  [][ \A msg \in CommandErrors :
        CommandFailsStep(msg) => status' = [msg |-> msg, type |-> "error"] ]_vars

\* C23, amended: when the request of a command fails, the status shows the
\* message as an error unless the message has one of the substrings
\* classified as transient, in which case the status is left as it was.
C23_FailureShownUnlessTransient ==
  [][ \A msg \in CommandErrors :
        CommandFailsStep(msg) =>
          IF msg \in SuppressedErrors
          THEN status' = status
          ELSE status' = [msg |-> msg, type |-> "error"] ]_vars

\* A togglePlayPause and a playTrack have both failed, the later of them with
\* a server error that the status shows.
C23_Witness ==
  /\ obs.tgRes = "failed"
  /\ obs.ptRes = "failed"
  /\ tg.pc = "idle" /\ pt.pc = "idle"
  /\ status = [msg |-> MsgServer, type |-> "error"]

\* C24: no asynchronous step started by a poll, a playTrack or a
\* togglePlayPause ends in a promise that rejects with no handler. (Fails:
\* togglePlay() of the in-process session is not awaited, see C8.)
C24_NoUnhandledRejection == [][ evt' # "unhandled" ]_vars

\* A step of playTrack: an invocation, or a step at which its device lookup
\* or its play request moves on or settles.
PlayTrackStep == evt' = "playTrack" \/ pt' # pt

\* C25: no step of playTrack, on any path, changes the paused belief, the
\* current track id, the position/duration baseline or the Interpolation
\* Clock.
C25_PlayTrackLeavesSnapshot ==
  [][ PlayTrackStep =>
        UNCHANGED << lastPaused, lastTrackId, pollSyncPos, pollSyncAt,
                     pollDuration, progressTimer, progressTimers >> ]_vars

\* While X is believed playing and the clock runs, a playTrack for Y has
\* failed at its play request and has returned; belief, track and clock are
\* still those of X.
C25_Witness ==
  /\ obs.ptTrack = "Y"
  /\ obs.ptRes = "failed"
  /\ pt.pc = "idle"
  /\ lastTrackId = "X"
  /\ ~lastPaused
  /\ progressTimers = {progressTimer}
  /\ obs.resp.seen /\ obs.resp.at <= obs.ptAt

\* C26: whenever an Interpolation Clock timer is live, the belief is playing.
C26_ClockImpliesPlaying == progressTimers # {} => ~lastPaused

\* C27: when the request of a toggle fails and the Interpolation Clock was
\* running when the toggle was invoked, the clock is running when the toggle
\* returns.
C27_FailedToggleRestoresClock ==
  [][ (ToggleFailStep /\ obs.tgClock0) => progressTimers' # {} ]_vars

\* A remote toggle returns with its command done.
ToggleSuccessStep == ToggleSettleStep /\ obs'.tgRes = "ok"

\* C28 as stated: a successful toggle returns with the belief the negation of
\* the belief at invocation, whatever poll response arrived in flight.
C28_BeliefNegatedAtReturn ==
  [][ ToggleSuccessStep => lastPaused' = ~tg.prevPaused ]_vars

\* C28: an accepted toggle negates the belief; while its command is in flight
\* only a report of the playback state (an arriving poll response, or a
\* player_state_changed event) or a logout changes the belief; the successful
\* return leaves the belief as it finds it. The belief at return is therefore
\* the negation of the belief at invocation unless one of these wrote it in
\* flight, and then it is what the last of them wrote.
C28_BeliefNegatedUnlessPolled ==
  /\ [][ ToggleRemoteAcceptStep => lastPaused' = ~lastPaused ]_vars
  /\ [][ (tg.pc # "idle" /\ tg'.pc # "idle" /\ lastPaused' # lastPaused)
           => (evt' = "snapshot" \/ SdkStateChanged \/ HandleLogout) ]_vars
  /\ [][ ToggleSuccessStep => lastPaused' = lastPaused ]_vars

\* A poll response has put back the belief at invocation while the command
\* of the toggle is still awaiting its answer.
C28_Witness ==
  /\ tg.pc = "fetch"
  /\ evt = "snapshot"
  /\ lastPaused = tg.prevPaused

\* C29: once a playTrack that found no device, or whose play request failed,
\* has returned, the guards accept a new playTrack, also less than 500 ms
\* after the returned invocation began.
C29_FailedPlayTrackOpensNoWindow ==
  (obs.ptRes \in {"nodevice", "failed"} /\ pt.pc = "idle")
    => ~PlayTrackRejects

\* C30: provided every awaited request settles, a pending flag that is set is
\* eventually cleared, for playTrack and for togglePlayPause, on every path
\* of the accepted invocation.
C30_PendingEventuallyClears ==
  /\ playTrackPending ~> ~playTrackPending
  /\ playbackCommandPending ~> ~playbackCommandPending

\* A playTrack that found no device has returned; after it a toggle whose
\* request failed has returned, with its error shown, and the toggle invoked
\* next was accepted and has succeeded; both flags are clear.
C30_Witness ==
  /\ obs.ptRes = "nodevice"
  /\ status = setStatus(MsgServer, "error")
  /\ obs.tgRes = "ok"
  /\ ~playTrackPending
  /\ ~playbackCommandPending

\* The save-track handler in slot c returns success.
SaveSuccessStep(c) ==
  /\ saveCalls[c].pc = "fetch"
  /\ saveCalls'[c].pc = "reply"
  /\ saveCalls'[c].ret = "success"

\* C31: no update of the track library is lost under overlapping requests.
\* A save-track that returns success leaves its track in the stored library
\* and keeps the effect of the requests that ran while it was awaiting:
\* every track of another id stored just before it returns (saved or updated
\* by another request) is stored unchanged after, and no other id (deleted by
\* another request) appears.
C31_NoLostUpdate ==
  [][ \A c \in 1..MaxSaveCalls : SaveSuccessStep(c) =>
        /\ saveCalls[c].trackId \in IdsOf(tracksFile')
        /\ \A i \in 1..Len(tracksFile) :
             tracksFile[i].id # saveCalls[c].trackId
               => \E j \in 1..Len(tracksFile') :
                    tracksFile'[j] = tracksFile[i]
        /\ IdsOf(tracksFile') \subseteq
             IdsOf(tracksFile) \cup {saveCalls[c].trackId} ]_vars
====
